---- MODULE Spec2Model ----
(***************************************************************************)
(* A model of the knowledge-graph builders (CleanHierarchyParser and       *)
(* DirectNeo4jExtractor) writing to a property-graph store, and of the     *)
(* RPC parameter validator.  Every Cypher statement the builders send is   *)
(* one atomic step on the store.                                           *)
(***************************************************************************)
EXTENDS Naturals, Integers, Sequences, FiniteSets, TLC

VARIABLES
  builder,   \* which graph builder drives the store: "clean" | "direct"
  nodes,     \* the store's nodes: records [id, label, key]
  edges,     \* the store's relationships: records [src, type, dst] over node ids
  nextId,    \* the store's next internal node id
  seed,      \* the str-hash seed of the running Python process
  run,       \* the operation in progress, or Idle
  todo,      \* statements still to send: one sequence per file (ingest) or one in all (clear)
  viol,      \* uniqueness-constraint violations raised during the operation in progress
  ops,       \* number of operations started
  hist,      \* history: the completed operations, [kind, repo, viol]
  snap,      \* history: the store as it was when the operation in progress (or last run) started
  keylog,    \* history: every composite key computed, with the logical entity it was computed for
  owner,     \* history: <<node id, repository>> for every node an ingest of that repository created
  deleted,   \* history: the nodes the clear in progress (or last run) has deleted
  supabase_schema,  \* the catalog the validator was built from: [functions, enums]
  function_name,    \* the RPC function the call site names
  provided_params,  \* the call's parameter dict, in insertion order: records [name, value]
  errors,           \* what validate_rpc_call returned: a sequence of issues
  checks,           \* history: the parameter checks validate_rpc_call ran, in order
  pc,               \* "call": the call is being written; "done": it has been validated
  script,           \* the file validate_script is given and what its environment does
  analysis,         \* what analyze_typescript_file returned for it
  report,           \* the ValidationReport under construction
  vpc,              \* the step of validate_script about to run
  ran,              \* history: the steps of validate_script that ran to their end
  swallowed,        \* history: the steps whose exception was caught inside the step
  fault,            \* history: the statements whose session.run raised, <<operation, where>>
  database,         \* the Supabase project analysed: the sub-queries that fail, the tables a probe reaches
  schema_info,      \* the SupabaseSchemaInfo under construction
  apc,              \* the facet analyze_schema is about to read
  entry,            \* the ingestion entry point being executed, and what it has called so far
  props,            \* <<node id, values>>: the property values ON CREATE SET gave each node
  sigv,             \* a SignatureValidator instance, the lists it has created and returned
  site              \* the file whose RPC call sites are validated, and the detections of each

graphVars == <<builder, nodes, edges, nextId, seed, run, todo, viol, ops, hist, snap,
               keylog, owner, deleted>>

rpcVars == <<supabase_schema, function_name, provided_params, errors, checks, pc>>

valVars == <<script, analysis, report, vpc, ran, swallowed>>

schemaVars == <<database, schema_info, apc>>

envVars == <<fault, schemaVars, entry, props, sigv, site>>

\* what a graph builder, the RPC validator, the script validator, the schema
\* analyzer leaves alone
nonGraphVars == <<rpcVars, valVars, envVars>>
nonRpcVars == <<graphVars, valVars, envVars>>
nonValVars == <<graphVars, rpcVars, envVars>>
nonSchemaVars == <<graphVars, rpcVars, valVars, fault, entry, props, sigv, site>>
nonSigVars == <<graphVars, rpcVars, valVars, fault, schemaVars, entry, props, site>>
nonSiteVars == <<graphVars, rpcVars, valVars, fault, schemaVars, entry, props, sigv>>

-----------------------------------------------------------------------------
(* Bounds *)

MaxOps == 4        \* operations (ingest / clear) per behaviour
MaxExtra == 3      \* undeclared parameters per RPC call

-----------------------------------------------------------------------------
(* Strings: Python's str.replace, str.join, str.lower on TLC strings *)

RECURSIVE StrReplace(_, _, _)
StrReplace(s, old, new) ==
  IF Len(s) < Len(old) THEN s
  ELSE IF SubSeq(s, 1, Len(old)) = old
       THEN new \o StrReplace(SubSeq(s, Len(old) + 1, Len(s)), old, new)
       ELSE SubSeq(s, 1, 1) \o StrReplace(SubSeq(s, 2, Len(s)), old, new)

RECURSIVE StrJoin(_, _)
StrJoin(parts, sep) ==
  IF parts = << >> THEN ""
  ELSE IF Len(parts) = 1 THEN parts[1]
  ELSE parts[1] \o sep \o StrJoin(Tail(parts), sep)

UpperChars == <<"A","B","C","D","E","F","G","H","I","J","K","L","M",
                "N","O","P","Q","R","S","T","U","V","W","X","Y","Z">>
LowerChars == <<"a","b","c","d","e","f","g","h","i","j","k","l","m",
                "n","o","p","q","r","s","t","u","v","w","x","y","z">>

LowerChar(c) ==
  IF \E i \in 1..26 : UpperChars[i] = c
  THEN LowerChars[CHOOSE i \in 1..26 : UpperChars[i] = c]
  ELSE c

RECURSIVE StrLower(_)
StrLower(s) ==
  IF s = "" THEN "" ELSE LowerChar(SubSeq(s, 1, 1)) \o StrLower(SubSeq(s, 2, Len(s)))

RECURSIVE Flatten(_)
Flatten(ss) == IF ss = << >> THEN << >> ELSE Head(ss) \o Flatten(Tail(ss))

MapSeq(s, Op(_)) == [i \in 1..Len(s) |-> Op(s[i])]

-----------------------------------------------------------------------------
(* The repositories on disk: source files as the analyzers see them.       *)
(* parts is the path relative to the repository root; pkgDirs the indices  *)
(* of the directories of parts that hold an __init__.py.  A TypeScript     *)
(* file carries what TypeScriptAnalyzer extracts (AnalysisResult), a       *)
(* Python file its public classes and top-level functions.                 *)

Repos == {"A", "B"}

FileAppTsx ==
  [parts |-> <<"src", "App.tsx">>, lang |-> "ts", pkgDirs |-> {},
   components |-> << [name |-> "App", props |-> <<"title">>, hooks |-> <<"useState">>] >>,
   hook_calls |-> << [hook_name |-> "useState", args |-> "['0']", variable_name |-> "count"] >>,
   function_calls |-> << [function_name |-> "fetchData", object_name |-> ""] >>,
   classes |-> << >>, functions |-> << >>]

FileModelsPy(dirs) ==
  [parts |-> dirs \o <<"models.py">>, lang |-> "py", pkgDirs |-> {},
   components |-> << >>, hook_calls |-> << >>, function_calls |-> << >>,
   classes |-> << [name |-> "User", methods |-> <<"save">>, attributes |-> <<"name">>] >>,
   functions |-> <<"helper">>]

RepoFiles(repo) ==
  IF repo = "A" THEN << FileAppTsx, FileModelsPy(<<"src">>) >>
  ELSE << FileModelsPy(<<"src">>), FileModelsPy(<<"src", "lib">>) >>

RelativePath(file) == StrJoin(file.parts, "/")

\* The logical entity a key is computed for: repository, file, nesting, kind and name
\* (history only: the code never builds this value).
Entity(repo, file, kind, nest, name) ==
  [repo |-> repo, path |-> RelativePath(file), kind |-> kind, nest |-> nest, name |-> name]

-----------------------------------------------------------------------------
(* Neo4jCodeAnalyzer: the module dictionaries _create_graph is given *)

SkipDirs == {"src", "lib", "source", "python", "pkg", "packages"}

RECURSIVE DropLeadingSkipDirs(_)
DropLeadingSkipDirs(parts) ==
  IF parts = << >> THEN << >>
  ELSE IF StrLower(Head(parts)) \in SkipDirs THEN DropLeadingSkipDirs(Tail(parts))
  ELSE parts

GetImportableModuleNameNoPackage(file) ==
  LET relative_path == RelativePath(file)
      default_module == StrReplace(StrReplace(relative_path, "/", "."), ".py", "")
      filtered_parts == DropLeadingSkipDirs(file.parts)
  IN  IF filtered_parts # << >>
      THEN StrReplace(StrJoin(filtered_parts, "."), ".py", "")
      ELSE default_module

GetImportableModuleName(file) ==
  LET package_roots == {i \in 1..(Len(file.parts) - 1) : i \in file.pkgDirs}
  IN  IF package_roots # {}
      THEN LET package_start == CHOOSE i \in package_roots : \A j \in package_roots : i <= j
           IN  StrReplace(StrJoin(SubSeq(file.parts, package_start, Len(file.parts)), "."),
                          ".py", "")
      ELSE GetImportableModuleNameNoPackage(file)

AnalyzeTypescriptFile(file) ==
  LET module_name == GetImportableModuleName(file)
  IN  [file_path |-> RelativePath(file),
       module_name |-> module_name,
       src |-> file,
       classes |-> << >>,
       components |-> MapSeq(file.components,
                        LAMBDA c : [name |-> c.name, full_name |-> module_name \o "." \o c.name]),
       functions |-> MapSeq(file.function_calls,
                        LAMBDA fc : [name |-> fc.function_name,
                                     full_name |-> IF fc.object_name # ""
                                                   THEN fc.object_name \o "." \o fc.function_name
                                                   ELSE module_name \o "." \o fc.function_name]),
       hook_calls |-> MapSeq(file.hook_calls,
                        LAMBDA h : [name |-> h.hook_name, args |-> h.args,
                                    variable_name |-> h.variable_name])]

AnalyzePythonFile(file) ==
  LET module_name == GetImportableModuleName(file)
  IN  [file_path |-> RelativePath(file),
       module_name |-> module_name,
       src |-> file,
       classes |-> MapSeq(file.classes,
                        LAMBDA c : [name |-> c.name, full_name |-> module_name \o "." \o c.name,
                                    methods |-> c.methods, attributes |-> c.attributes]),
       functions |-> MapSeq(file.functions,
                        LAMBDA f : [name |-> f, full_name |-> module_name \o "." \o f]),
       components |-> << >>,
       hook_calls |-> << >>]

\* analyze_repository: TypeScript files first, then Python files
ModulesData(repo) ==
  LET files == RepoFiles(repo)
      ts == SelectSeq(files, LAMBDA f : f.lang = "ts")
      py == SelectSeq(files, LAMBDA f : f.lang = "py")
  IN  MapSeq(ts, AnalyzeTypescriptFile) \o MapSeq(py, AnalyzePythonFile)

-----------------------------------------------------------------------------
(* Cypher statements.  key is the value of the property the statement      *)
(* matches or merges on; ent the logical entity the key was computed for.  *)

NoEnt == [repo |-> "", path |-> "", kind |-> "", nest |-> "", name |-> ""]

\* CREATE (n:label {key})
StCreate(label, key, ent) ==
  [kind |-> "CREATE", label |-> label, key |-> key, ent |-> ent,
   plabel |-> "", pkey |-> "", etype |-> "", pat |-> << >>]

\* MERGE (n:label {key}) ON CREATE SET ...
StMerge(label, key, ent) ==
  [kind |-> "MERGE", label |-> label, key |-> key, ent |-> ent,
   plabel |-> "", pkey |-> "", etype |-> "", pat |-> << >>]

\* MATCH (a:plabel {pkey}) MATCH (b:label {key}) CREATE (a)-[:etype]->(b)
StLinkCreate(plabel, pkey, etype, label, key) ==
  [kind |-> "LINK_CREATE", label |-> label, key |-> key, ent |-> NoEnt,
   plabel |-> plabel, pkey |-> pkey, etype |-> etype, pat |-> << >>]

\* MATCH (a:plabel {pkey}) MATCH (b:label {key}) MERGE (a)-[:etype]->(b)
StLinkMerge(plabel, pkey, etype, label, key) ==
  [kind |-> "LINK_MERGE", label |-> label, key |-> key, ent |-> NoEnt,
   plabel |-> plabel, pkey |-> pkey, etype |-> etype, pat |-> << >>]

\* MATCH (a:plabel {pkey}) MERGE (b:label {key}) SET ... MERGE (a)-[:etype]->(b)
StMatchMergeLink(plabel, pkey, etype, label, key, ent) ==
  [kind |-> "MATCH_MERGE_LINK", label |-> label, key |-> key, ent |-> ent,
   plabel |-> plabel, pkey |-> pkey, etype |-> etype, pat |-> << >>]

\* MATCH (r:Repository {name: repo})<pat> DETACH DELETE <the last node of pat>
StDelete(repo, pat) ==
  [kind |-> "DELETE", label |-> "", key |-> "", ent |-> NoEnt,
   plabel |-> "Repository", pkey |-> repo, etype |-> "", pat |-> pat]

\* one hop of a path pattern: -[:etype]->(:label), or -[:etype*]->(:label) when star
Hop(etype, star, label) == [etype |-> etype, star |-> star, label |-> label]

-----------------------------------------------------------------------------
(* DirectNeo4jExtractor *)

\* initialize: the uniqueness constraints declared (File.path, Class.full_name,
\* Component.comp_id, Hook.hook_id)
DirectUnique == {"File", "Class", "Component", "Hook"}

\* str(hook) of the hook dictionary {'name', 'args', 'variable_name'}
PyStrHook(hook) ==
  "{'name': '" \o hook.name \o "', 'args': " \o hook.args \o
  ", 'variable_name': '" \o hook.variable_name \o "'}"

\* hash(str): keyed by the per-process seed (PYTHONHASHSEED, random when unset);
\* the value is kept symbolic: equal within a process, distinct across seeds
PyHash(sd, s) == "hash" \o ToString(sd) \o "(" \o s \o ")"

DirectHookId(mod, hook, sd) ==
  mod.file_path \o "::" \o hook.name \o "::" \o PyHash(sd, PyStrHook(hook))

DirectMethodStmts(repo, mod, cls, m) ==
  LET method_id == cls.full_name \o "::" \o m
  IN  << StMerge("Method", method_id, Entity(repo, mod.src, "Method", cls.name, m)),
         StLinkMerge("Class", cls.full_name, "HAS_METHOD", "Method", method_id) >>

DirectAttributeStmts(repo, mod, cls, a) ==
  LET attr_id == cls.full_name \o "::" \o a
  IN  << StMerge("Attribute", attr_id, Entity(repo, mod.src, "Attribute", cls.name, a)),
         StLinkMerge("Class", cls.full_name, "HAS_ATTRIBUTE", "Attribute", attr_id) >>

DirectClassStmts(repo, mod, cls) ==
  << StMerge("Class", cls.full_name, Entity(repo, mod.src, "Class", "", cls.name)),
     StLinkMerge("File", mod.file_path, "DEFINES", "Class", cls.full_name) >>
  \o Flatten(MapSeq(cls.methods, LAMBDA m : DirectMethodStmts(repo, mod, cls, m)))
  \o Flatten(MapSeq(cls.attributes, LAMBDA a : DirectAttributeStmts(repo, mod, cls, a)))

DirectFunctionStmts(repo, mod, func) ==
  LET func_id == mod.file_path \o "::" \o func.name
  IN  << StMerge("Function", func_id, Entity(repo, mod.src, "Function", "", func.name)),
         StLinkMerge("File", mod.file_path, "DEFINES", "Function", func_id) >>

DirectComponentStmts(repo, mod, comp) ==
  LET comp_id == mod.file_path \o "::" \o comp.name
  IN  << StMerge("Component", comp_id, Entity(repo, mod.src, "Component", "", comp.name)),
         StLinkMerge("File", mod.file_path, "DEFINES", "Component", comp_id) >>

DirectHookStmts(repo, mod, hook, sd) ==
  LET hook_id == DirectHookId(mod, hook, sd)
  IN  << StMerge("Hook", hook_id,
                 Entity(repo, mod.src, "Hook", "", hook.name \o hook.args \o hook.variable_name)),
         StLinkMerge("File", mod.file_path, "USES", "Hook", hook_id) >>

\* _create_graph, the body of the per-module try block
DirectFileStmts(repo, mod, sd) ==
  << StCreate("File", mod.file_path, Entity(repo, mod.src, "File", "", mod.file_path)),
     StLinkCreate("Repository", repo, "CONTAINS", "File", mod.file_path) >>
  \o Flatten(MapSeq(mod.classes, LAMBDA c : DirectClassStmts(repo, mod, c)))
  \o Flatten(MapSeq(mod.functions, LAMBDA f : DirectFunctionStmts(repo, mod, f)))
  \o Flatten(MapSeq(mod.components, LAMBDA c : DirectComponentStmts(repo, mod, c)))
  \o Flatten(MapSeq(mod.hook_calls, LAMBDA h : DirectHookStmts(repo, mod, h, sd)))

DirectRepositoryStmt(repo) ==
  StCreate("Repository", repo, Entity(repo, [parts |-> << >>], "Repository", "", repo))

\* _create_graph: the Repository statement, then one group of statements per module
\* (an exception inside a group skips the rest of that group only)
DirectCreateGraph(repo, modules_data, sd) ==
  << << DirectRepositoryStmt(repo) >> >>
  \o MapSeq(modules_data, LAMBDA mod : DirectFileStmts(repo, mod, sd))

\* a clear that deletes the files and the repository before what they contain
DirectClearStmts_FilesFirst(repo) ==
  << StDelete(repo, << Hop("CONTAINS", FALSE, "File") >>),
     StDelete(repo, << Hop("CONTAINS", FALSE, "File"), Hop("DEFINES", FALSE, "Class"),
                       Hop("HAS_METHOD", FALSE, "Method") >>),
     StDelete(repo, << Hop("CONTAINS", FALSE, "File"), Hop("DEFINES", FALSE, "Class") >>),
     StDelete(repo, << >>) >>

\* clear_repository_data: the eight DETACH DELETE statements, in order
DirectClearStmts(repo) ==
  << StDelete(repo, << Hop("CONTAINS", FALSE, "File"), Hop("DEFINES", FALSE, "Class"),
                       Hop("HAS_METHOD", FALSE, "Method") >>),
     StDelete(repo, << Hop("CONTAINS", FALSE, "File"), Hop("DEFINES", FALSE, "Class"),
                       Hop("HAS_ATTRIBUTE", FALSE, "Attribute") >>),
     StDelete(repo, << Hop("CONTAINS", FALSE, "File"), Hop("DEFINES", FALSE, "Component") >>),
     StDelete(repo, << Hop("CONTAINS", FALSE, "File"), Hop("USES", FALSE, "Hook") >>),
     StDelete(repo, << Hop("CONTAINS", FALSE, "File"), Hop("DEFINES", FALSE, "Function") >>),
     StDelete(repo, << Hop("CONTAINS", FALSE, "File"), Hop("DEFINES", FALSE, "Class") >>),
     StDelete(repo, << Hop("CONTAINS", FALSE, "File") >>),
     StDelete(repo, << >>) >>

-----------------------------------------------------------------------------
(* CleanHierarchyParser *)

\* _create_clean_schema: the uniqueness constraints declared
CleanUnique == {"Repository", "File", "Class", "Method", "Component", "Function",
                "TypeDefinition", "Interface"}

\* the fields of the ComponentInfo dataclass TypeScriptAnalyzer returns, and the
\* module-level names neo4j_clean_hierarchy.py imports: reading anything else raises
\* AttributeError / NameError
ComponentInfoFields == {"name", "type", "props", "hooks", "line_number", "is_exported"}
CleanModuleNames == {"asyncio", "logging", "os", "Path", "List", "Optional", "Dict", "Any",
                     "Set", "datetime", "timezone", "AsyncGraphDatabase", "TypeScriptAnalyzer",
                     "SupabaseAnalyzer", "SupabaseSchemaInfo"}

\* parse_repository without local_path analyses /tmp/<repo_name>
CleanAbsolutePath(repo, file) == "/tmp/" \o repo \o "/" \o RelativePath(file)

CleanFileId(repo, file) ==
  LET relative_path == StrReplace(CleanAbsolutePath(repo, file),
                                  "/Users/kwenji/mcp-crawl4ai-rag/", "")
  IN  repo \o "::" \o relative_path

\* _create_component_hierarchy: the keyword arguments of the first session.run read
\* component.is_default_export, so a component without that attribute raises before
\* any statement of the component is sent
CleanComponentRaises == "is_default_export" \notin ComponentInfoFields

CleanComponentStmts(repo, file, file_id, component) ==
  LET component_id == file_id \o "::" \o component.name
      props_id == component_id \o "::props"
  IN  << StMatchMergeLink("File", file_id, "DEFINES", "Component", component_id,
                          Entity(repo, file, "Component", "", component.name)) >>
      \o (IF component.props # << >>
          THEN << StMatchMergeLink("Component", component_id, "HAS_PROPS", "Props", props_id,
                                   Entity(repo, file, "Props", component.name, "props")) >>
          ELSE << >>)
      \o MapSeq(component.hooks,
           LAMBDA hook_name :
             StMatchMergeLink("Component", component_id, "USES_HOOK", "Hook",
                              component_id \o "::hook::" \o hook_name,
                              Entity(repo, file, "Hook", component.name, hook_name)))

\* _parse_typescript_file: the component loop, then the loops over analysis.classes,
\* .functions, .interfaces and .types; any exception ends the file (except Exception,
\* logged at debug level).  The first component raises in _create_component_hierarchy;
\* the later loops send nothing for the files analysed here.
CleanTypescriptStmts(repo, file, file_id) ==
  IF file.components # << >> /\ CleanComponentRaises
  THEN << >>
  ELSE Flatten(MapSeq(file.components,
                      LAMBDA c : CleanComponentStmts(repo, file, file_id, c)))

\* _parse_python_file: ast.parse is called but ast is not imported, so the try block
\* raises NameError before any statement is sent
CleanPythonStmts(repo, file, file_id) ==
  IF "ast" \in CleanModuleNames
  THEN Flatten(MapSeq(file.classes,
         LAMBDA c : << StMatchMergeLink("File", file_id, "DEFINES", "Class",
                                        file_id \o "::class::" \o c.name,
                                        Entity(repo, file, "Class", "", c.name)) >>))
       \o Flatten(MapSeq(file.functions,
         LAMBDA f : << StMatchMergeLink("File", file_id, "DEFINES", "Function",
                                        file_id \o "::func::" \o f,
                                        Entity(repo, file, "Function", "", f)) >>))
  ELSE << >>

\* _parse_file: the File statement, then the statements of the file's language
CleanFileStmts(repo, file) ==
  LET file_id == CleanFileId(repo, file)
  IN  << StMatchMergeLink("Repository", repo, "CONTAINS", "File", file_id,
                          Entity(repo, file, "File", "", RelativePath(file))) >>
      \o (IF file.lang = "ts" THEN CleanTypescriptStmts(repo, file, file_id)
          ELSE IF file.lang = "py" THEN CleanPythonStmts(repo, file, file_id)
          ELSE << >>)

\* _create_repository_node
CleanRepositoryStmt(repo) ==
  StMerge("Repository", repo, Entity(repo, [parts |-> << >>], "Repository", "", repo))

\* parse_repository: the Repository statement, then _parse_directory over the files
CleanParseRepository(repo, files) ==
  << << CleanRepositoryStmt(repo) >> >>
  \o MapSeq(files, LAMBDA file : CleanFileStmts(repo, file))

\* clear_repository: the thirteen DETACH DELETE statements, in order
CleanClearLabels == <<"Method", "Attribute", "Property", "Hook", "Props", "State",
                      "TypeDefinition", "Interface", "Function", "Component", "Class">>

CleanClearStmts(repo) ==
  MapSeq(CleanClearLabels, LAMBDA l : StDelete(repo, << Hop("CONTAINS", TRUE, l) >>))
  \o << StDelete(repo, << Hop("CONTAINS", FALSE, "File") >>),
        StDelete(repo, << >>) >>

-----------------------------------------------------------------------------
(* The store: what each kind of statement does to nodes and edges *)

Unique(b) == IF b = "clean" THEN CleanUnique ELSE DirectUnique

Matching(ns, label, key) == {n \in ns : n.label = label /\ n.key = key}

NewNode(id, label, key) == [id |-> id, label |-> label, key |-> key]

\* MERGE (n:label {key}): match, or create when nothing matches
\* a MERGE that never matches an existing node
MergeNode_AlwaysCreates(ns, id, label, key) == ns \cup {NewNode(id, label, key)}

MergeNode(ns, id, label, key) ==
  IF Matching(ns, label, key) # {} THEN ns ELSE ns \cup {NewNode(id, label, key)}

\* CREATE (n:label {key}): always a new node
CreateNode(ns, id, label, key) == ns \cup {NewNode(id, label, key)}

\* CREATE of a node whose label has a uniqueness constraint on the key property
ViolatesUnique(b, ns, label, key) ==
  label \in Unique(b) /\ Matching(ns, label, key) # {}

\* MERGE / CREATE (a)-[:etype]->(b) for every matched pair.  A relationship CREATE is
\* only ever sent for a File node created by the statement before it, so no parallel
\* relationship can exist and a set of triples is exact.
LinkAll(es, as, etype, bs) ==
  es \cup {[src |-> a.id, type |-> etype, dst |-> b.id] : a \in as, b \in bs}

\* the nodes one hop away from the nodes of from
OneHop(ns, es, from, etype, label) ==
  {m \in ns : m.label = label /\ \E a \in from : [src |-> a.id, type |-> etype, dst |-> m.id] \in es}

\* the nodes one or more etype relationships away, whatever their label
RECURSIVE ReachVia(_, _, _, _, _)
ReachVia(ns, es, from, etype, fuel) ==
  LET next == {m \in ns : \E a \in from : [src |-> a.id, type |-> etype, dst |-> m.id] \in es}
  IN  IF fuel = 0 \/ next = {} THEN {}
      ELSE next \cup ReachVia(ns, es, next, etype, fuel - 1)

RECURSIVE MatchPath(_, _, _, _)
MatchPath(ns, es, from, pat) ==
  IF pat = << >> THEN from
  ELSE LET h == Head(pat)
           to == IF h.star
                 THEN {m \in ReachVia(ns, es, from, h.etype, Cardinality(ns)) : m.label = h.label}
                 ELSE OneHop(ns, es, from, h.etype, h.label)
       IN  MatchPath(ns, es, to, Tail(pat))

\* the nodes a DELETE statement removes
DeleteTargets(ns, es, st) == MatchPath(ns, es, Matching(ns, st.plabel, st.pkey), st.pat)

\* DETACH DELETE: the nodes and every relationship touching them
DetachDeleteNodes(ns, gone) == ns \ gone
DetachDeleteEdges(es, gone) ==
  {e \in es : \A g \in gone : e.src # g.id /\ e.dst # g.id}

-----------------------------------------------------------------------------
(* The graph builders as a state machine *)

Seeds == {0, 1}

Idle == [kind |-> "idle", repo |-> ""]

RECURSIVE Norm(_)
\* the statement groups still to run, without the exhausted ones in front
Norm(groups) ==
  IF groups = << >> THEN << >>
  ELSE IF Head(groups) = << >> THEN Norm(Tail(groups))
  ELSE groups

Stmt == Head(Head(todo))
AfterStmt == Norm(<< Tail(Head(todo)) >> \o Tail(todo))
Running == run # Idle /\ todo # << >>

GraphInit ==
  /\ builder \in {"clean", "direct"}
  /\ nodes = {}
  /\ edges = {}
  /\ nextId = 1
  /\ seed = 0
  /\ run = Idle
  /\ todo = << >>
  /\ viol = 0
  /\ ops = 0
  /\ hist = << >>
  /\ snap = [nodes |-> {}, edges |-> {}]
  /\ keylog = {}
  /\ owner = {}
  /\ deleted = {}

\* parse_repository (clean) / _create_graph (direct) is called for a repository
StartIngest(repo) ==
  /\ run = Idle
  /\ ops < MaxOps
  /\ run' = [kind |-> "ingest", repo |-> repo]
  /\ todo' = Norm(IF builder = "clean"
                  THEN CleanParseRepository(repo, RepoFiles(repo))
                  ELSE DirectCreateGraph(repo, ModulesData(repo), seed))
  /\ viol' = 0
  /\ ops' = ops + 1
  /\ snap' = [nodes |-> nodes, edges |-> edges]
  /\ UNCHANGED <<builder, nodes, edges, nextId, seed, hist, keylog, owner, deleted>>
  /\ UNCHANGED nonGraphVars

\* clear_repository (clean) / clear_repository_data (direct) is called for a repository
StartClear(repo) ==
  /\ run = Idle
  /\ ops < MaxOps
  /\ run' = [kind |-> "clear", repo |-> repo]
  /\ todo' = << IF builder = "clean" THEN CleanClearStmts(repo) ELSE DirectClearStmts(repo) >>
  /\ viol' = 0
  /\ ops' = ops + 1
  /\ snap' = [nodes |-> nodes, edges |-> edges]
  /\ deleted' = {}
  /\ UNCHANGED <<builder, nodes, edges, nextId, seed, hist, keylog, owner>>
  /\ UNCHANGED nonGraphVars

\* the Python process ends and a new one starts: a new str-hash seed
RestartProcess ==
  /\ run = Idle
  /\ seed' \in Seeds \ {seed}
  /\ UNCHANGED <<builder, nodes, edges, nextId, run, todo, viol, ops, hist, snap,
                 keylog, owner, deleted>>
  /\ UNCHANGED nonGraphVars

LogKey(st) == keylog \cup {[label |-> st.label, key |-> st.key, ent |-> st.ent]}

\* session.run of a node CREATE; a constraint violation raises inside the per-module
\* try block of _create_graph: the rest of the module's statements is skipped
ExecCreate ==
  /\ Running
  /\ Stmt.kind = "CREATE"
  /\ keylog' = LogKey(Stmt)
  /\ IF ViolatesUnique(builder, nodes, Stmt.label, Stmt.key)
     THEN /\ viol' = viol + 1
          /\ todo' = Norm(Tail(todo))
          /\ UNCHANGED <<nodes, nextId, owner>>
     ELSE /\ nodes' = CreateNode(nodes, nextId, Stmt.label, Stmt.key)
          /\ nextId' = nextId + 1
          /\ owner' = owner \cup {<<nextId, run.repo>>}
          /\ todo' = AfterStmt
          /\ viol' = viol
  /\ UNCHANGED <<builder, edges, seed, run, ops, hist, snap, deleted>>
  /\ UNCHANGED nonGraphVars

\* session.run of a node MERGE
ExecMerge ==
  /\ Running
  /\ Stmt.kind = "MERGE"
  /\ keylog' = LogKey(Stmt)
  /\ nodes' = MergeNode(nodes, nextId, Stmt.label, Stmt.key)
  /\ nextId' = IF nodes' # nodes THEN nextId + 1 ELSE nextId
  /\ owner' = IF nodes' # nodes THEN owner \cup {<<nextId, run.repo>>} ELSE owner
  /\ todo' = AfterStmt
  /\ UNCHANGED <<builder, edges, seed, run, viol, ops, hist, snap, deleted>>
  /\ UNCHANGED nonGraphVars

\* session.run of MATCH .. MATCH .. CREATE / MERGE of a relationship
ExecLink ==
  /\ Running
  /\ Stmt.kind \in {"LINK_CREATE", "LINK_MERGE"}
  /\ edges' = LinkAll(edges, Matching(nodes, Stmt.plabel, Stmt.pkey), Stmt.etype,
                      Matching(nodes, Stmt.label, Stmt.key))
  /\ todo' = AfterStmt
  /\ UNCHANGED <<builder, nodes, nextId, seed, run, viol, ops, hist, snap, keylog,
                 owner, deleted>>
  /\ UNCHANGED nonGraphVars

\* session.run of MATCH (parent) MERGE (node) SET .. MERGE (parent)-[..]->(node):
\* no parent row, nothing happens
ExecMatchMergeLink ==
  /\ Running
  /\ Stmt.kind = "MATCH_MERGE_LINK"
  /\ keylog' = LogKey(Stmt)
  /\ LET parents == Matching(nodes, Stmt.plabel, Stmt.pkey)
         merged == IF parents = {} THEN nodes
                   ELSE MergeNode(nodes, nextId, Stmt.label, Stmt.key)
     IN  /\ nodes' = merged
         /\ edges' = LinkAll(edges, parents, Stmt.etype,
                             Matching(merged, Stmt.label, Stmt.key))
         /\ nextId' = IF merged # nodes THEN nextId + 1 ELSE nextId
         /\ owner' = IF merged # nodes THEN owner \cup {<<nextId, run.repo>>} ELSE owner
  /\ todo' = AfterStmt
  /\ UNCHANGED <<builder, seed, run, viol, ops, hist, snap, deleted>>
  /\ UNCHANGED nonGraphVars

\* session.run of MATCH <path> DETACH DELETE
ExecDelete ==
  /\ Running
  /\ Stmt.kind = "DELETE"
  /\ LET gone == DeleteTargets(nodes, edges, Stmt)
     IN  /\ nodes' = DetachDeleteNodes(nodes, gone)
         /\ edges' = DetachDeleteEdges(edges, gone)
         /\ deleted' = deleted \cup gone
  /\ todo' = AfterStmt
  /\ UNCHANGED <<builder, nextId, seed, run, viol, ops, hist, snap, keylog, owner>>
  /\ UNCHANGED nonGraphVars

\* the operation returns
Finish ==
  /\ run # Idle
  /\ todo = << >>
  /\ hist' = Append(hist, [kind |-> run.kind, repo |-> run.repo, viol |-> viol])
  /\ run' = Idle
  /\ UNCHANGED <<builder, nodes, edges, nextId, seed, todo, viol, ops, snap, keylog,
                 owner, deleted>>
  /\ UNCHANGED nonGraphVars

GraphNext ==
  \/ \E repo \in Repos : StartIngest(repo)
  \/ \E repo \in Repos : StartClear(repo)
  \/ RestartProcess
  \/ ExecCreate
  \/ ExecMerge
  \/ ExecLink
  \/ ExecMatchMergeLink
  \/ ExecDelete
  \/ Finish

-----------------------------------------------------------------------------
(* RPCParameterValidator: Python values, formats, catalog *)

\* a Python value: its runtime type and str(value)
PyStr(s) == [py |-> "str", text |-> s]
PyInt(i) == [py |-> "int", text |-> ToString(i)]
PyBool(b) == [py |-> "bool", text |-> IF b THEN "True" ELSE "False"]
PyDict == [py |-> "dict", text |-> "{}"]
PyList == [py |-> "list", text |-> "[]"]

\* isinstance(value, int): bool is a subclass of int
IsInstanceInt(value) == value.py \in {"int", "bool"}

Digits == "0123456789"
HexDigits == "0123456789abcdefABCDEF"

InChars(c, chars) == \E i \in 1..Len(chars) : SubSeq(chars, i, i) = c

\* re.match of a fixed-length pattern: h stands for [0-9a-fA-F], d for \d, any other
\* character for itself
MatchTemplate(s, tpl) ==
  /\ Len(s) = Len(tpl)
  /\ \A i \in 1..Len(tpl) :
       LET t == SubSeq(tpl, i, i)
           c == SubSeq(s, i, i)
       IN  CASE t = "h" -> InChars(c, HexDigits)
             [] t = "d" -> InChars(c, Digits)
             [] OTHER -> c = t

uuid_pattern == "hhhhhhhh-hhhh-hhhh-hhhh-hhhhhhhhhhhh"

timestamp_patterns ==
  {"dddd-dd-ddTdd:dd:dd", "dddd-dd-ddTdd:dd:ddZ",
   "dddd-dd-ddTdd:dd:dd.ddd", "dddd-dd-ddTdd:dd:dd.dddZ",
   "dddd-dd-dd dd:dd:dd"}

\* int(s) succeeds: an optional sign, then digits
IntParses(s) ==
  LET body == IF s # "" /\ SubSeq(s, 1, 1) \in {"+", "-"} THEN SubSeq(s, 2, Len(s)) ELSE s
  IN  body # "" /\ \A i \in 1..Len(body) : InChars(SubSeq(body, i, i), Digits)

\* json.loads(s) succeeds: a literal, a number, a string, an empty object or array
JsonLoads(s) ==
  \/ s \in {"true", "false", "null", "{}", "[]"}
  \/ s # "" /\ SubSeq(s, 1, 1) # "+" /\ IntParses(s)
  \/ /\ Len(s) >= 2
     /\ SubSeq(s, 1, 1) = "\"" /\ SubSeq(s, Len(s), Len(s)) = "\""
     /\ \A i \in 2..(Len(s) - 1) : SubSeq(s, i, i) \notin {"\"", "\\"}

\* a validator that accepts no UUID
IsValidUuid_Never(value) == FALSE

IsValidUuid(value) == value.py = "str" /\ MatchTemplate(value.text, uuid_pattern)

IsValidInteger(value) ==
  \/ IsInstanceInt(value)
  \/ value.py = "str" /\ IntParses(value.text)

IsValidBoolean(value) ==
  \/ value.py = "bool"
  \/ value.py = "str" /\ StrLower(value.text) \in {"true", "false", "0", "1"}

IsValidTimestamp(value) ==
  value.py = "str" /\ \E tpl \in timestamp_patterns : MatchTemplate(value.text, tpl)

IsValidJsonObject(value) ==
  \/ value.py \in {"dict", "list"}
  \/ value.py = "str" /\ JsonLoads(value.text)

\* a parameter as the catalog lists it; default "" stands for a parameter without
\* a 'default' entry
Param(name, type, mode, default) ==
  [name |-> name, type |-> type, mode |-> mode, default |-> default]

\* the functions of the database, in catalog order
Functions ==
  << [name |-> "get_analytics",
      parameters |-> << Param("user_id", "uuid", "IN", ""),
                        Param("range", "range_type", "IN", "") >>],
     [name |-> "ping", parameters |-> << >>],
     [name |-> "set_config",
      parameters |-> << Param("id", "bigint", "IN", ""),
                        Param("flag", "boolean", "IN", "false"),
                        Param("cfg", "json", "IN", "") >>],
     [name |-> "list_events",
      parameters |-> << Param("since", "timestamp", "IN", ""),
                        Param("note", "text", "IN", "'none'::text"),
                        Param("total", "bigint", "OUT", "") >>] >>

Enums == << [name |-> "range_type", values |-> <<"7d", "30d", "90d", "1y">>] >>

\* a catalog holding the first n functions
Schema(n) == [functions |-> SubSeq(Functions, 1, n), enums |-> Enums]

\* _build_enum_cache: enum name -> values, a later enum of the same name replacing
\* an earlier one
BuildEnumCache(schema) ==
  [n \in {schema.enums[i].name : i \in 1..Len(schema.enums)} |->
     LET last == CHOOSE i \in 1..Len(schema.enums) :
                   /\ schema.enums[i].name = n
                   /\ \A j \in (i + 1)..Len(schema.enums) : schema.enums[j].name # n
     IN  schema.enums[last].values]

type_mapping ==
  [t \in {"text", "varchar", "char", "bigint", "integer", "int", "uuid", "boolean", "bool",
          "json", "jsonb", "timestamp", "timestamptz", "date", "numeric", "decimal",
          "array"} |->
     CASE t \in {"text", "varchar", "char"} -> "text"
       [] t \in {"bigint", "integer", "int"} -> "bigint"
       [] t \in {"boolean", "bool"} -> "boolean"
       [] t \in {"timestamp", "timestamptz"} -> "timestamp"
       [] t \in {"numeric", "decimal"} -> "numeric"
       [] OTHER -> t]

\* _map_parameter_type: the ParameterType (by its value) of a PostgreSQL type
MapParameterType(enum_cache, pg_type) ==
  IF pg_type \in DOMAIN enum_cache THEN "enum"
  ELSE IF StrLower(pg_type) \in DOMAIN type_mapping THEN type_mapping[StrLower(pg_type)]
  ELSE "text"

\* _get_enum_values: << >> stands for None
GetEnumValues(enum_cache, pg_type) ==
  IF pg_type \in DOMAIN enum_cache THEN enum_cache[pg_type] ELSE << >>

\* _get_json_schema: TRUE stands for the basic object schema, FALSE for None
GetJsonSchema(pg_type) == pg_type \in {"json", "jsonb"}

\* the ExpectedParameter built for one catalog parameter
ExpectedParameter(enum_cache, param) ==
  [name |-> param.name,
   type |-> MapParameterType(enum_cache, param.type),
   is_required |-> (param.mode = "IN" /\ param.default = ""),
   enum_values |-> GetEnumValues(enum_cache, param.type),
   json_schema |-> GetJsonSchema(param.type)]

\* _build_function_cache: function name -> expected parameters, a later function of
\* the same name replacing an earlier one
BuildFunctionCache(schema) ==
  LET enum_cache == BuildEnumCache(schema)
      fs == schema.functions
  IN  [n \in {fs[i].name : i \in 1..Len(fs)} |->
         LET last == CHOOSE i \in 1..Len(fs) :
                       /\ fs[i].name = n
                       /\ \A j \in (i + 1)..Len(fs) : fs[j].name # n
         IN  MapSeq(fs[last].parameters, LAMBDA p : ExpectedParameter(enum_cache, p))]

\* list(function_cache.keys()): the names in order of first insertion
CacheKeys(schema) ==
  LET fs == schema.functions
  IN  MapSeq(SelectSeq([i \in 1..Len(fs) |-> i],
                       LAMBDA i : \A j \in 1..(i - 1) : fs[j].name # fs[i].name),
             LAMBDA i : fs[i].name)

-----------------------------------------------------------------------------
(* RPCParameterValidator: the checks *)

\* a ParameterValidationError: the parameter it is about, its ParameterValidationType
\* and the names its expected / suggestion texts list
Issue(parameter_name, validation_type, named) ==
  [parameter_name |-> parameter_name, validation_type |-> validation_type, named |-> named]

ProvidedNames(provided) == {provided[i].name : i \in 1..Len(provided)}

ExpectedNames(expected) == {expected[i].name : i \in 1..Len(expected)}

\* expected_by_name[name]: a later parameter of the same name replaces an earlier one
ExpectedByName(expected, name) ==
  expected[CHOOSE i \in 1..Len(expected) :
             /\ expected[i].name = name
             /\ \A j \in (i + 1)..Len(expected) : expected[j].name # name]

RequiredCount(expected) == Cardinality({i \in 1..Len(expected) : expected[i].is_required})

\* a validator without the count check
ValidateParameterCount_Off(expected, provided) == << >>

ValidateParameterCount(expected, provided) ==
  LET required_count == RequiredCount(expected)
      total_expected == Len(expected)
      provided_count == Len(provided)
  IN  (IF provided_count < required_count
       THEN << Issue("parameter_count", "PARAMETER_COUNT_MISMATCH",
                     {expected[i].name : i \in {j \in 1..Len(expected) :
                        expected[j].is_required
                        /\ expected[j].name \notin ProvidedNames(provided)}}) >>
       ELSE << >>)
      \o (IF provided_count > total_expected
          THEN << Issue("parameter_count", "PARAMETER_COUNT_MISMATCH",
                        ProvidedNames(provided) \ ExpectedNames(expected)) >>
          ELSE << >>)

ValidateRequiredParameters(expected, provided) ==
  Flatten(MapSeq(expected,
    LAMBDA param :
      IF param.is_required /\ param.name \notin ProvidedNames(provided)
      THEN << Issue(param.name, "MISSING_REQUIRED", {param.name}) >>
      ELSE << >>))

\* the format check of one provided value against its expected parameter
TypeCheckFails(expected_param, param_value) ==
  CASE expected_param.type = "uuid" -> ~ IsValidUuid(param_value)
    [] expected_param.type = "bigint" -> ~ IsValidInteger(param_value)
    [] expected_param.type = "boolean" -> ~ IsValidBoolean(param_value)
    [] expected_param.type = "timestamp" -> ~ IsValidTimestamp(param_value)
    [] OTHER -> FALSE

ValidateParameterTypes(expected, provided) ==
  Flatten(MapSeq(provided,
    LAMBDA p :
      IF p.name \notin ExpectedNames(expected) THEN << >>
      ELSE IF TypeCheckFails(ExpectedByName(expected, p.name), p.value)
           THEN << Issue(p.name, "TYPE_MISMATCH", {}) >>
           ELSE << >>))

SeqToSet(q) == {q[i] : i \in 1..Len(q)}

\* a validator without the enum check
ValidateEnumValues_Off(expected, provided) == << >>

ValidateEnumValues(expected, provided) ==
  Flatten(MapSeq(provided,
    LAMBDA p :
      IF p.name \notin ExpectedNames(expected) THEN << >>
      ELSE LET expected_param == ExpectedByName(expected, p.name)
           IN  IF /\ expected_param.type = "enum"
                  /\ expected_param.enum_values # << >>
                  /\ p.value.text \notin SeqToSet(expected_param.enum_values)
               THEN << Issue(p.name, "INVALID_ENUM", SeqToSet(expected_param.enum_values)) >>
               ELSE << >>))

\* _validate_json_schema against the basic object schema (no required property, no
\* typed property): the errors it returns
ValidateJsonSchema(value) ==
  IF value.py # "dict" THEN << "must be an object" >> ELSE << >>

ValidateJsonStructures(expected, provided) ==
  Flatten(MapSeq(provided,
    LAMBDA p :
      IF p.name \notin ExpectedNames(expected) THEN << >>
      ELSE LET expected_param == ExpectedByName(expected, p.name)
           IN  IF expected_param.type \notin {"json", "jsonb"} THEN << >>
               ELSE IF ~ IsValidJsonObject(p.value)
                    THEN << Issue(p.name, "INVALID_JSON_STRUCTURE", {}) >>
               ELSE IF expected_param.json_schema
                    THEN MapSeq(ValidateJsonSchema(p.value),
                                LAMBDA e : Issue(p.name, "INVALID_JSON_STRUCTURE", {}))
               ELSE << >>))

\* the five checks validate_rpc_call runs for a known function, in order
CheckNames == << "parameter_count", "required_parameters", "parameter_types",
                 "enum_values", "json_structures" >>

\* validate_rpc_call: the issues returned
ValidateRpcCall(schema, fname, provided) ==
  LET function_cache == BuildFunctionCache(schema)
  IN  IF fname \notin DOMAIN function_cache
      THEN << Issue("function", "TYPE_MISMATCH",
                    SeqToSet(SubSeq(CacheKeys(schema), 1,
                                    IF Len(CacheKeys(schema)) < 3
                                    THEN Len(CacheKeys(schema)) ELSE 3))) >>
      ELSE LET expected_params == function_cache[fname]
           IN  ValidateParameterCount(expected_params, provided)
               \o ValidateRequiredParameters(expected_params, provided)
               \o ValidateParameterTypes(expected_params, provided)
               \o ValidateEnumValues(expected_params, provided)
               \o ValidateJsonStructures(expected_params, provided)

\* the checks validate_rpc_call runs
ChecksRun(schema, fname) ==
  IF fname \notin DOMAIN BuildFunctionCache(schema) THEN << >> ELSE CheckNames

-----------------------------------------------------------------------------
(* RPC call sites and their validation *)

\* the values call sites pass
Values ==
  { PyStr("123e4567-e89b-12d3-a456-426614174000"), PyStr("not-a-uuid"),
    PyStr("7d"), PyStr("12h"), PyStr("42"), PyStr("true"),
    PyStr("2024-01-01T00:00:00Z"), PyBool(TRUE), PyInt(5), PyDict, PyList }

\* the catalogs a validator is built from: a part of the database, or all of it
Schemas == {Schema(2), Schema(Len(Functions))}

\* the function names call sites use
CallNames == {Functions[i].name : i \in 1..Len(Functions)} \cup {"no_such_function"}

\* the parameter names the database declares for a function name
DeclaredNames(fname) ==
  UNION {ExpectedNames(Functions[i].parameters) :
           i \in {j \in 1..Len(Functions) : Functions[j].name = fname}}

\* the k-th name a call site passes that the database declares for no function
ExtraName(k) == "extra_" \o ToString(k)
ExtraValue(k) == IF k % 2 = 1 THEN PyStr("should not be here") ELSE PyInt(123)

Extras(provided) == ProvidedNames(provided) \ DeclaredNames(function_name)

\* no graph builder runs
GraphOff ==
  /\ builder = "none"
  /\ nodes = {}
  /\ edges = {}
  /\ nextId = 1
  /\ seed = 0
  /\ run = Idle
  /\ todo = << >>
  /\ viol = 0
  /\ ops = 0
  /\ hist = << >>
  /\ snap = [nodes |-> {}, edges |-> {}]
  /\ keylog = {}
  /\ owner = {}
  /\ deleted = {}

\* no RPC call is validated
RpcOff ==
  /\ supabase_schema = Schema(0)
  /\ function_name = ""
  /\ provided_params = << >>
  /\ errors = << >>
  /\ checks = << >>
  /\ pc = "off"

\* RPCParameterValidator(schema) is constructed and a call site is met
RpcInit ==
  /\ supabase_schema \in Schemas
  /\ function_name \in CallNames
  /\ provided_params = << >>
  /\ errors = << >>
  /\ checks = << >>
  /\ pc = "call"

\* the position of a declared parameter name in the database's declaration
DeclaredPosition(fname, name) ==
  LET ps == Functions[CHOOSE i \in 1..Len(Functions) : Functions[i].name = fname].parameters
  IN  CHOOSE i \in 1..Len(ps) : ps[i].name = name

\* the call site passes a parameter the database declares for the function; call
\* sites name the declared parameters in declaration order, then any others
SupplyDeclared ==
  /\ pc = "call"
  /\ Extras(provided_params) = {}
  /\ \E name \in DeclaredNames(function_name) \ ProvidedNames(provided_params),
        value \in Values :
       /\ \A n \in ProvidedNames(provided_params) :
            DeclaredPosition(function_name, n) < DeclaredPosition(function_name, name)
       /\ provided_params' = Append(provided_params, [name |-> name, value |-> value])
  /\ UNCHANGED <<supabase_schema, function_name, errors, checks, pc>>
  /\ UNCHANGED nonRpcVars

\* the call site passes a parameter the database does not declare for the function
SupplyExtra ==
  /\ pc = "call"
  /\ Cardinality(Extras(provided_params)) < MaxExtra
  /\ LET k == Cardinality(Extras(provided_params)) + 1
     IN  provided_params' =
           Append(provided_params, [name |-> ExtraName(k), value |-> ExtraValue(k)])
  /\ UNCHANGED <<supabase_schema, function_name, errors, checks, pc>>
  /\ UNCHANGED nonRpcVars

\* validate_rpc_call(function_name, provided_params)
Validate ==
  /\ pc = "call"
  /\ errors' = ValidateRpcCall(supabase_schema, function_name, provided_params)
  /\ checks' = ChecksRun(supabase_schema, function_name)
  /\ pc' = "done"
  /\ UNCHANGED <<supabase_schema, function_name, provided_params>>
  /\ UNCHANGED nonRpcVars

RpcNext ==
  \/ SupplyDeclared
  \/ SupplyExtra
  \/ Validate

-----------------------------------------------------------------------------
(* Failures of session.run during initialize and ingest *)

\* the most statements that fail
MaxFails == 2

\* no entry point is executing
NoEntry == [point |-> "", repo_url |-> "", repo_name |-> "", phase |-> "idle", calls |-> << >>,
            n |-> 0]

\* no SignatureValidator exists
SigOff == [heap |-> << >>, issues |-> 0, returned |-> << >>]
SiteOff == [file |-> << >>, next |-> 0, detections |-> << >>]

\* no schema is analysed
SchemaOff ==
  /\ database = "none"
  /\ schema_info = "none"
  /\ apc = "off"

\* nothing has failed, no schema is analysed
EnvOff == fault = {} /\ SchemaOff /\ entry = NoEntry /\ props = {} /\ sigv = SigOff /\ site = SiteOff

\* initialize / _create_clean_schema: the constraints declared, in order
DirectConstraintLabels == <<"File", "Class", "Component", "Hook">>
CleanConstraintLabels == <<"Repository", "File", "Class", "Method", "Component", "Function",
                           "TypeDefinition", "Interface">>

\* CREATE CONSTRAINT IF NOT EXISTS FOR (n:label) REQUIRE n.<key> IS UNIQUE
StConstraint(label) ==
  [kind |-> "CONSTRAINT", label |-> label, key |-> "", ent |-> NoEnt,
   plabel |-> "", pkey |-> "", etype |-> "", pat |-> << >>]

\* initialize is called, once and before any other operation: the constraint
\* statements, none of them inside a try block
StartInitialize ==
  /\ run = Idle
  /\ ops = 0
  /\ run' = [kind |-> "initialize", repo |-> ""]
  /\ todo' = << MapSeq(IF builder = "clean" THEN CleanConstraintLabels
                       ELSE DirectConstraintLabels, StConstraint) >>
  /\ viol' = 0
  /\ ops' = ops + 1
  /\ snap' = [nodes |-> nodes, edges |-> edges]
  /\ UNCHANGED <<builder, nodes, edges, nextId, seed, hist, keylog, owner, deleted>>
  /\ UNCHANGED nonGraphVars

\* session.run of CREATE CONSTRAINT IF NOT EXISTS
ExecConstraint ==
  /\ Running
  /\ Stmt.kind = "CONSTRAINT"
  /\ Stmt.label \in Unique(builder)
  /\ todo' = AfterStmt
  /\ UNCHANGED <<builder, nodes, edges, nextId, seed, run, viol, ops, hist, snap, keylog,
                 owner, deleted>>
  /\ UNCHANGED nonGraphVars

\* where the statement about to run stands in its operation: a constraint of
\* initialize, the Repository statement, or the i-th file of the repository
Where ==
  IF run.kind = "initialize" THEN "constraint"
  ELSE IF Stmt.label = "Repository" /\ Stmt.kind \in {"CREATE", "MERGE"} THEN "repository"
  ELSE ToString(Len(RepoFiles(run.repo)) - Len(todo) + 1)

\* a handler that treats every failure as the failure of one file
FailureReach_PerFile(where) == "file"

\* who catches an exception of session.run: the per-file try block (_create_graph
\* 'except Exception: continue', _parse_directory 'except Exception'), or nobody
\* before the caller (initialize has no try block; _create_graph re-raises what the
\* Repository statement raises; parse_repository calls _create_repository_node
\* outside any try block)
FailureReach(where) ==
  IF where \in {"constraint", "repository"} THEN "caller" ELSE "file"

\* session.run raises on the statement about to run
FailStatement ==
  /\ Running
  /\ run.kind \in {"initialize", "ingest"}
  /\ Cardinality(fault) < MaxFails
  /\ fault' = fault \cup {<<ops, Where>>}
  /\ todo' = IF FailureReach(Where) = "caller" THEN << >> ELSE Norm(Tail(todo))
  /\ UNCHANGED <<builder, nodes, edges, nextId, seed, run, viol, ops, hist, snap, keylog,
                 owner, deleted>>
  /\ UNCHANGED <<rpcVars, valVars, schemaVars, entry, props, sigv, site>>

\* at most MaxFails operations are started
FaultNext ==
  \/ StartInitialize
  \/ \E repo \in Repos : ops < MaxFails /\ StartIngest(repo)
  \/ ExecConstraint
  \/ ExecCreate
  \/ ExecMerge
  \/ ExecLink
  \/ ExecMatchMergeLink
  \/ FailStatement
  \/ Finish

-----------------------------------------------------------------------------
(* A whole operation on the store: its statements run one after the other *)

\* the store a statement leaves; failed tells that session.run raised
Store(ns, es, id, pr, failed) ==
  [nodes |-> ns, edges |-> es, nextId |-> id, props |-> pr, failed |-> failed]

\* the parameters of a method and the type of an attribute, as the analyzer reports
\* them: the User class of src/lib/models.py differs from that of src/models.py
MethodArgs(ent) == IF ent.path = "src/lib/models.py" THEN <<"self", "force">> ELSE <<"self">>
AttributeType(ent) == IF ent.path = "src/lib/models.py" THEN "str" ELSE "Any"

\* the values the ON CREATE SET clause (or the CREATE) of a statement gives a new node
OnCreateSet(st) ==
  [name |-> st.ent.name,
   args |-> IF st.label = "Method" THEN MethodArgs(st.ent) ELSE << >>,
   type |-> IF st.label = "Attribute" THEN AttributeType(st.ent) ELSE ""]

\* session.run(statement) on a store, as ExecCreate .. ExecDelete do it
ApplyStmt(b, st, store) ==
  LET ns == store.nodes
      es == store.edges
      id == store.nextId
      pr == store.props
      Out(ns2, es2, id2, failed) ==
        Store(ns2, es2, id2, pr \cup {<<n.id, OnCreateSet(st)>> : n \in ns2 \ ns}, failed)
  IN  CASE st.kind = "CREATE" ->
             IF ViolatesUnique(b, ns, st.label, st.key) THEN Out(ns, es, id, TRUE)
             ELSE Out(CreateNode(ns, id, st.label, st.key), es, id + 1, FALSE)
        [] st.kind = "MERGE" ->
             LET merged == MergeNode(ns, id, st.label, st.key)
             IN  Out(merged, es, IF merged # ns THEN id + 1 ELSE id, FALSE)
        [] st.kind \in {"LINK_CREATE", "LINK_MERGE"} ->
             Out(ns, LinkAll(es, Matching(ns, st.plabel, st.pkey), st.etype,
                               Matching(ns, st.label, st.key)), id, FALSE)
        [] st.kind = "MATCH_MERGE_LINK" ->
             LET parents == Matching(ns, st.plabel, st.pkey)
                 merged == IF parents = {} THEN ns ELSE MergeNode(ns, id, st.label, st.key)
             IN  Out(merged,
                       LinkAll(es, parents, st.etype, Matching(merged, st.label, st.key)),
                       IF merged # ns THEN id + 1 ELSE id, FALSE)
        [] st.kind = "DELETE" ->
             LET gone == DeleteTargets(ns, es, st)
             IN  Out(DetachDeleteNodes(ns, gone), DetachDeleteEdges(es, gone), id, FALSE)
        [] OTHER -> store

RECURSIVE RunGroup(_, _, _)
\* the statements of one try block: the first that raises ends the block
RunGroup(b, stmts, store) ==
  IF stmts = << >> THEN store
  ELSE LET after == ApplyStmt(b, Head(stmts), store)
       IN  IF after.failed THEN [after EXCEPT !.failed = FALSE]
           ELSE RunGroup(b, Tail(stmts), after)

RECURSIVE RunGroups(_, _, _)
\* the try blocks of an operation, one after the other
RunGroups(b, groups, store) ==
  IF groups = << >> THEN store
  ELSE RunGroups(b, Tail(groups), RunGroup(b, Head(groups), store))

-----------------------------------------------------------------------------
(* The ingestion entry points: DirectNeo4jExtractor.analyze_repository,       *)
(* analyze_local_repository (scan_local_repo.py), clean_parse_repository      *)

\* the most entry-point calls in a run
MaxCalls == 3

RECURSIVE LastSegment(_)
\* s.split('/')[-1]
LastSegment(s) ==
  IF \E i \in 1..Len(s) : SubSeq(s, i, i) = "/"
  THEN LastSegment(SubSeq(s, (CHOOSE i \in 1..Len(s) : SubSeq(s, i, i) = "/") + 1, Len(s)))
  ELSE s

\* repo_url.split('/')[-1].replace('.git', '')
RepoNameOfUrl(repo_url) == StrReplace(LastSegment(repo_url), ".git", "")

\* the URLs entry points are given; each names a repository of Repos
RepoUrls == {"https://github.com/acme/A.git", "https://github.com/acme/B"}

\* the entry points of a builder
EntryPoints(b) ==
  IF b = "clean" THEN {"clean_parse_repository"}
  ELSE {"analyze_repository", "analyze_local_repository"}

\* the repository name the entry point ingests under
TargetName(e) ==
  IF e.point = "analyze_repository" THEN RepoNameOfUrl(e.repo_url)
  ELSE IF e.repo_name # "" THEN e.repo_name
  ELSE RepoNameOfUrl(e.repo_url)

\* whether the entry point calls clear before it ingests: analyze_repository and
\* analyze_local_repository always; clean_parse_repository only 'if repo_name'
ClearsFirst(e) ==
  IF e.point = "clean_parse_repository" THEN e.repo_name # "" ELSE TRUE

\* the name the entry point clears
ClearedName(e) ==
  IF e.point = "analyze_repository" THEN RepoNameOfUrl(e.repo_url) ELSE e.repo_name

\* an entry point is called; repo_name "" stands for a name not passed (None)
CallEntryPoint ==
  /\ entry.phase = "idle"
  /\ entry.n < MaxCalls
  /\ run = Idle
  /\ \E point \in EntryPoints(builder), repo_url \in RepoUrls :
       \E repo_name \in IF point = "analyze_repository" THEN {""}
                       ELSE IF point = "analyze_local_repository" THEN {RepoNameOfUrl(repo_url)}
                       ELSE {"", RepoNameOfUrl(repo_url)} :
          entry' = [point |-> point, repo_url |-> repo_url, repo_name |-> repo_name,
                    phase |-> "clear", calls |-> << >>, n |-> entry.n + 1]
  /\ UNCHANGED <<graphVars, rpcVars, valVars, fault, schemaVars, props, sigv, site>>

\* await clear_repository_data(repo_name) / 'if repo_name: await clear_repository(repo_name)'
EntryClear ==
  /\ entry.phase = "clear"
  /\ IF ClearsFirst(entry)
     THEN LET name == ClearedName(entry)
              after == RunGroup(builder,
                                IF builder = "clean" THEN CleanClearStmts(name)
                                ELSE DirectClearStmts(name),
                                Store(nodes, edges, nextId, props, FALSE))
          IN  /\ nodes' = after.nodes
              /\ edges' = after.edges
              /\ props' = {p \in after.props : \E n \in after.nodes : n.id = p[1]}
              /\ entry' = [entry EXCEPT !.phase = "ingest",
                                        !.calls = Append(@, <<"clear", name>>)]
     ELSE /\ entry' = [entry EXCEPT !.phase = "ingest"]
          /\ UNCHANGED <<nodes, edges, props>>
  /\ UNCHANGED <<builder, nextId, seed, run, todo, viol, ops, hist, snap, keylog, owner,
                 deleted>>
  /\ UNCHANGED <<rpcVars, valVars, fault, schemaVars, sigv, site>>

\* await _create_graph(repo_name, modules_data) / await parse_repository(repo_url, repo_name, local_path)
EntryIngest ==
  /\ entry.phase = "ingest"
  /\ LET name == TargetName(entry)
         after == RunGroups(builder,
                            IF builder = "clean" THEN CleanParseRepository(name, RepoFiles(name))
                            ELSE DirectCreateGraph(name, ModulesData(name), seed),
                            Store(nodes, edges, nextId, props, FALSE))
     IN  /\ nodes' = after.nodes
         /\ edges' = after.edges
         /\ nextId' = after.nextId
         /\ props' = after.props
         /\ entry' = [entry EXCEPT !.phase = "idle", !.calls = Append(@, <<"write", name>>)]
  /\ UNCHANGED <<builder, seed, run, todo, viol, ops, hist, snap, keylog, owner, deleted>>
  /\ UNCHANGED <<rpcVars, valVars, fault, schemaVars, sigv, site>>

EntryNext ==
  \/ CallEntryPoint
  \/ EntryClear
  \/ EntryIngest

-----------------------------------------------------------------------------
(* Two files of a repository ingested at the same time: each file's statements run  *)
(* in order, the two files' statements interleave, session.run is atomic            *)

\* the statement groups of the files of a repository (the Repository group left out)
FileGroups(b, repo) ==
  Tail(IF b = "clean" THEN CleanParseRepository(repo, RepoFiles(repo))
       ELSE DirectCreateGraph(repo, ModulesData(repo), seed))

\* the Repository statement has run; the two files start together
StartConcurrent(repo) ==
  /\ run = Idle
  /\ ops = 0
  /\ LET after == RunGroup(builder,
                           << IF builder = "clean" THEN CleanRepositoryStmt(repo)
                              ELSE DirectRepositoryStmt(repo) >>,
                           Store(nodes, edges, nextId, props, FALSE))
     IN  /\ nodes' = after.nodes
         /\ edges' = after.edges
         /\ nextId' = after.nextId
         /\ props' = after.props
         /\ snap' = [nodes |-> after.nodes, edges |-> after.edges, nextId |-> after.nextId,
                  props |-> after.props]
  /\ run' = [kind |-> "concurrent", repo |-> repo]
  /\ todo' = FileGroups(builder, repo)
  /\ viol' = 0
  /\ ops' = 1
  /\ UNCHANGED <<builder, seed, hist, keylog, owner, deleted>>
  /\ UNCHANGED <<rpcVars, valVars, fault, schemaVars, entry, sigv, site>>

\* the next statement of file i is run; if it raises, the file's try block ends
FileStep(i) ==
  /\ run.kind = "concurrent"
  /\ i \in 1..Len(todo)
  /\ todo[i] # << >>
  /\ LET after == ApplyStmt(builder, Head(todo[i]), Store(nodes, edges, nextId, props, FALSE))
     IN  /\ nodes' = after.nodes
         /\ edges' = after.edges
         /\ nextId' = after.nextId
         /\ props' = after.props
         /\ viol' = IF after.failed THEN viol + 1 ELSE viol
         /\ todo' = [todo EXCEPT ![i] = IF after.failed THEN << >> ELSE Tail(@)]
  /\ UNCHANGED <<builder, seed, run, ops, hist, snap, keylog, owner, deleted>>
  /\ UNCHANGED <<rpcVars, valVars, fault, schemaVars, entry, sigv, site>>

\* both files are done
FinishConcurrent ==
  /\ run.kind = "concurrent"
  /\ \A i \in 1..Len(todo) : todo[i] = << >>
  /\ run' = [kind |-> "ingested", repo |-> run.repo]
  /\ hist' = Append(hist, [kind |-> "concurrent", repo |-> run.repo, viol |-> viol])
  /\ UNCHANGED <<builder, nodes, edges, nextId, seed, todo, viol, ops, snap, keylog,
                 owner, deleted>>
  /\ UNCHANGED nonGraphVars

ConcurrentNext ==
  \/ \E repo \in Repos : StartConcurrent(repo)
  \/ \E i \in 1..2 : FileStep(i)
  \/ FinishConcurrent

-----------------------------------------------------------------------------
(* SupabaseAnalyzer.analyze_schema *)

\* the metadata sub-queries analyze_schema sends through execute_sql
SubQueries == {"tables", "columns", "primary_keys", "foreign_keys", "indexes", "rls",
               "policies", "functions", "parameters", "views", "enums", "extensions",
               "schemas"}

\* the rows the database answers with, per table where the sub-query names a table
DbTables == << [name |-> "orders", schema |-> "public"], [name |-> "users", schema |-> "public"] >>
DbColumns(table) == IF table = "users" THEN <<"id", "email">> ELSE <<"id", "user_id">>
DbPrimaryKeys(table) == <<"id">>
DbForeignKeys(table) == IF table = "orders" THEN <<"user_id">> ELSE << >>
DbIndexes(table) == << table \o "_pkey" >>
\* relrowsecurity; policies can be defined on a table whose row security is off
DbRowSecurity(table) == table = "users"
DbPolicies(table) == << table \o "_owner_only" >>
DbViews == <<"active_users">>
DbExtensions == <<"pgcrypto", "uuid-ossp">>
DbSchemas == <<"public", "auth">>

\* _analyze_tables_fallback: the names probed through the REST interface
common_tables == <<"users", "profiles", "posts", "comments", "logs", "settings">>

\* the projects analysed: any set of failing sub-queries; when the tables query
\* fails, the probes that succeed
Databases ==
  {[failing |-> f, probes |-> {}] : f \in SUBSET (SubQueries \ {"tables"})}
  \cup {[failing |-> f \cup {"tables"}, probes |-> pr] :
          f \in SUBSET (SubQueries \ {"tables"}), pr \in SUBSET {"users", "profiles"}}

\* a sub-query method: try: execute; return the rows; except Exception: return []
SubQuery(db, kind, rows) == IF kind \in db.failing THEN << >> ELSE rows

\* _check_rls_enabled: False when the sub-query fails
CheckRlsEnabled(db, table) == "rls" \notin db.failing /\ DbRowSecurity(table)

\* a policies facet read whatever the row-security check says
TablePolicies_Always(db, table) == SubQuery(db, "policies", DbPolicies(table))

\* if table_info.rls_enabled: table_info.policies = await self._analyze_rls_policies(...)
TablePolicies(db, table) ==
  IF CheckRlsEnabled(db, table) THEN SubQuery(db, "policies", DbPolicies(table)) ELSE << >>

\* TableInfo(name, schema) with its facets at their defaults
TableInfo(name, schema) ==
  [name |-> name, schema |-> schema, columns |-> << >>, primary_keys |-> << >>,
   foreign_keys |-> << >>, indexes |-> << >>, rls_enabled |-> FALSE, policies |-> << >>]

\* _analyze_tables_fallback: existence only
AnalyzeTablesFallback(db) ==
  LET reached == SelectSeq(common_tables, LAMBDA t : t \in db.probes)
  IN  [i \in 1..Len(reached) |-> TableInfo(reached[i], "public")]

\* _analyze_tables
AnalyzeTablesResult(db) ==
  IF "tables" \in db.failing THEN AnalyzeTablesFallback(db)
  ELSE [i \in 1..Len(DbTables) |->
          LET t == DbTables[i].name
          IN  [TableInfo(t, DbTables[i].schema) EXCEPT
                 !.columns = SubQuery(db, "columns", DbColumns(t)),
                 !.primary_keys = SubQuery(db, "primary_keys", DbPrimaryKeys(t)),
                 !.foreign_keys = SubQuery(db, "foreign_keys", DbForeignKeys(t)),
                 !.indexes = SubQuery(db, "indexes", DbIndexes(t)),
                 !.rls_enabled = CheckRlsEnabled(db, t),
                 !.policies = TablePolicies(db, t)]]

\* _analyze_functions, with _analyze_function_parameters per function
AnalyzeFunctionsResult(db) ==
  SubQuery(db, "functions",
           [i \in 1..Len(Functions) |->
              [name |-> Functions[i].name,
               parameters |-> SubQuery(db, "parameters", Functions[i].parameters)]])

\* SupabaseSchemaInfo(project_url)
SchemaInfo ==
  [tables |-> << >>, functions |-> << >>, views |-> << >>, enums |-> << >>,
   extensions |-> << >>, schemas |-> << >>]

\* analyze_schema is entered with a connected client
SchemaInit ==
  /\ database \in Databases
  /\ schema_info = SchemaInfo
  /\ apc = "tables"

AnalyzeTables ==
  /\ apc = "tables"
  /\ schema_info' = [schema_info EXCEPT !.tables = AnalyzeTablesResult(database)]
  /\ apc' = "functions"
  /\ UNCHANGED database
  /\ UNCHANGED nonSchemaVars

AnalyzeFunctions ==
  /\ apc = "functions"
  /\ schema_info' = [schema_info EXCEPT !.functions = AnalyzeFunctionsResult(database)]
  /\ apc' = "views"
  /\ UNCHANGED database
  /\ UNCHANGED nonSchemaVars

AnalyzeViews ==
  /\ apc = "views"
  /\ schema_info' = [schema_info EXCEPT !.views = SubQuery(database, "views", DbViews)]
  /\ apc' = "enums"
  /\ UNCHANGED database
  /\ UNCHANGED nonSchemaVars

AnalyzeEnums ==
  /\ apc = "enums"
  /\ schema_info' = [schema_info EXCEPT !.enums = SubQuery(database, "enums", Enums)]
  /\ apc' = "extensions"
  /\ UNCHANGED database
  /\ UNCHANGED nonSchemaVars

AnalyzeExtensions ==
  /\ apc = "extensions"
  /\ schema_info' = [schema_info EXCEPT
                       !.extensions = SubQuery(database, "extensions", DbExtensions)]
  /\ apc' = "schemas"
  /\ UNCHANGED database
  /\ UNCHANGED nonSchemaVars

\* the last facet, then return schema_info
AnalyzeSchemas ==
  /\ apc = "schemas"
  /\ schema_info' = [schema_info EXCEPT !.schemas = SubQuery(database, "schemas", DbSchemas)]
  /\ apc' = "returned"
  /\ UNCHANGED database
  /\ UNCHANGED nonSchemaVars

SchemaNext ==
  \/ AnalyzeTables
  \/ AnalyzeFunctions
  \/ AnalyzeViews
  \/ AnalyzeEnums
  \/ AnalyzeExtensions
  \/ AnalyzeSchemas

-----------------------------------------------------------------------------
(* ComprehensiveValidator: detections and overall confidence *)

\* Severity
Severities == {"CRITICAL", "HIGH", "MEDIUM", "LOW", "INFO"}

\* a Detection: its DetectionType, Severity and confidence; a confidence is kept in
\* hundredths (100 stands for 1.0)
Detection(type, severity, confidence) ==
  [type |-> type, severity |-> severity, confidence |-> confidence]

\* the severity weights of _calculate_overall_confidence, in tenths
weights == [sv \in Severities |->
              CASE sv = "CRITICAL" -> 10
                [] sv = "HIGH" -> 8
                [] sv = "MEDIUM" -> 6
                [] sv = "LOW" -> 4
                [] OTHER -> 2]

\* a fraction num / den, den > 0
Frac(num, den) == [num |-> num, den |-> den]
FracLeq(a, b) == a.num * b.den <= b.num * a.den
FracEq(a, b) == a.num * b.den = b.num * a.den

RECURSIVE TotalWeight(_)
\* sum(weights[det.severity] * det.confidence ...), in thousandths
TotalWeight(detections) ==
  IF detections = << >> THEN 0
  ELSE weights[Head(detections).severity] * Head(detections).confidence
       + TotalWeight(Tail(detections))

\* a score that divides the total weight by the number of detections alone
CalculateOverallConfidence_Undivided(detections) ==
  IF detections = << >> THEN Frac(1, 1)
  ELSE LET rest == 1000 * Len(detections) - TotalWeight(detections)
       IN  Frac(IF rest < 0 THEN 0 ELSE rest, 1000 * Len(detections))

\* _calculate_overall_confidence: max(0.0, 1.0 - total_weight / (max_possible * 2))
CalculateOverallConfidence(detections) ==
  IF detections = << >> THEN Frac(1, 1)
  ELSE LET total_weight == TotalWeight(detections)
           max_possible == Len(detections)
           rest == 2000 * max_possible - total_weight
       IN  Frac(IF rest < 0 THEN 0 ELSE rest, 2000 * max_possible)

\* _map_severity, _map_rpc_severity, _map_signature_severity, _map_pattern_severity
MapSeverity(severity_str) ==
  IF severity_str \in Severities THEN severity_str ELSE "MEDIUM"

\* _map_rpc_validation_type
MapRpcValidationType(validation_type) ==
  CASE validation_type = "TYPE_MISMATCH" -> "RPC_PARAMETER_TYPE_MISMATCH"
    [] validation_type = "MISSING_REQUIRED" -> "RPC_MISSING_REQUIRED_PARAM"
    [] validation_type = "INVALID_ENUM" -> "RPC_INVALID_ENUM_VALUE"
    [] validation_type = "INVALID_JSON_STRUCTURE" -> "RPC_INVALID_JSON_STRUCTURE"
    [] validation_type = "PARAMETER_COUNT_MISMATCH" -> "RPC_PARAMETER_COUNT_MISMATCH"
    [] validation_type = "OPTIONAL_NOT_PROVIDED" -> "BAD_PRACTICE"
    [] OTHER -> "INCORRECT_SIGNATURE"

\* _map_signature_type
MapSignatureType(sig_type) ==
  CASE sig_type \in {"MISSING_ARGUMENTS", "TOO_MANY_ARGUMENTS"} -> "INCORRECT_SIGNATURE"
    [] sig_type \in {"UNUSED_TYPE", "UNUSED_FUNCTION"} -> "BAD_PRACTICE"
    [] OTHER -> "INVALID_TYPE"

\* _map_pattern_type
MapPatternType(pattern_type) ==
  CASE pattern_type = "IMPORT_INCONSISTENCY" -> "IMPORT_NOT_FOUND"
    [] pattern_type = "HOOK_VIOLATION" -> "HOOK_NOT_FOUND"
    [] pattern_type = "TYPE_SAFETY" -> "INVALID_TYPE"
    [] OTHER -> "BAD_PRACTICE"

\* _map_ts_detection_type
MapTsDetectionType(ts_type) ==
  CASE ts_type = "INVALID_IMPORT" -> "IMPORT_NOT_FOUND"
    [] ts_type = "INVALID_METHOD_CALL" -> "METHOD_NOT_FOUND"
    [] ts_type = "INVALID_FUNCTION_CALL" -> "HOOK_NOT_FOUND"
    [] ts_type = "INVALID_ATTRIBUTE_ACCESS" -> "ATTRIBUTE_NOT_FOUND"
    [] OTHER -> "INVALID_TYPE"

\* sub in s
RECURSIVE StrContains(_, _)
StrContains(s, sub) ==
  IF Len(s) < Len(sub) THEN FALSE
  ELSE SubSeq(s, 1, Len(sub)) = sub \/ StrContains(SubSeq(s, 2, Len(s)), sub)

\* s.strip('\'"')
RECURSIVE StripQuotes(_)
StripQuotes(s) ==
  IF s # "" /\ SubSeq(s, 1, 1) \in {"'", "\""} THEN StripQuotes(SubSeq(s, 2, Len(s)))
  ELSE IF s # "" /\ SubSeq(s, Len(s), Len(s)) \in {"'", "\""}
       THEN StripQuotes(SubSeq(s, 1, Len(s) - 1))
  ELSE s

IsUpper(c) == \E i \in 1..Len(UpperChars) : UpperChars[i] = c
IsLower(c) == \E i \in 1..Len(LowerChars) : LowerChars[i] = c

\* react_patterns['hooks']: the number of arguments each standard hook lists
react_hooks_args ==
  [h \in {"useState", "useEffect", "useContext", "useReducer", "useCallback", "useMemo",
          "useRef", "useImperativeHandle", "useLayoutEffect", "useDebugValue",
          "useDeferredValue", "useTransition", "useId"} |->
     CASE h \in {"useState", "useContext", "useRef", "useDeferredValue"} -> 1
       [] h \in {"useEffect", "useCallback", "useMemo", "useLayoutEffect", "useDebugValue"} -> 2
       [] h \in {"useReducer", "useImperativeHandle"} -> 3
       [] OTHER -> 0]

\* framework_signatures['next']: the number of arguments each function lists
next_signatures_args ==
  [f \in {"getServerSideProps", "getStaticProps", "getStaticPaths", "getInitialProps"} |->
     IF f = "getStaticPaths" THEN 0 ELSE 1]

-----------------------------------------------------------------------------
(* ComprehensiveValidator: the scripts it is given *)

\* the most faults the environment injects into one validate_script call
MaxFaults == 1

ImportInfo(module) == [module |-> module]
ComponentInfo(name, type, hooks, nprops, is_exported) ==
  [name |-> name, type |-> type, hooks |-> hooks,
   props |-> [i \in 1..nprops |-> "p" \o ToString(i)], is_exported |-> is_exported]
HookCall(hook_name, args) == [hook_name |-> hook_name, args |-> args]
\* rpc_params is what parse_rpc_parameters reads at the call
FunctionCall(fname, object_name, args, rpc_params) ==
  [function_name |-> fname, object_name |-> object_name, args |-> args,
   rpc_params |-> rpc_params]

\* AnalysisResult; is_none marks the None analyze_typescript_file returns
AnalysisResult(imports, components, hook_calls, function_calls, errs) ==
  [is_none |-> FALSE, imports |-> imports, components |-> components,
   hook_calls |-> hook_calls, function_calls |-> function_calls, errors |-> errs]
NoneAnalysis ==
  [is_none |-> TRUE, imports |-> << >>, components |-> << >>,
   hook_calls |-> << >>, function_calls |-> << >>, errors |-> << >>]

\* what the parser extracts from the sources validated
Sources ==
  { \* a well-formed component
    AnalysisResult(<< ImportInfo("react") >>,
                   << ComponentInfo("App", "function", <<"useState">>, 2, TRUE) >>,
                   << HookCall("useState", <<"0">>) >>, << >>, << >>),
    \* hook and component mistakes
    AnalysisResult(<< ImportInfo("react") >>,
                   << ComponentInfo("widget", "function", << >>, 0, TRUE),
                      ComponentInfo("Legacy", "class", <<"useState">>, 11, FALSE) >>,
                   << HookCall("useState", <<"0", "1">>), HookCall("usefoo", << >>) >>,
                   << >>, << >>),
    \* Supabase and Next.js calls
    AnalysisResult(<< ImportInfo("@supabase/supabase-js"), ImportInfo("next/router") >>,
                   << >>, << >>,
                   << FunctionCall("from", "supabase", <<"'users'">>, << >>),
                      FunctionCall("from", "supabase", <<"'ghosts'">>, << >>),
                      FunctionCall("rpc", "supabase", <<"'get_analytics'">>,
                                   << [name |-> "user_id", value |-> PyStr("not-a-uuid")],
                                      [name |-> "range", value |-> PyStr("12h")] >>),
                      FunctionCall("rpc", "supabase", <<"'no_such_function'">>, << >>),
                      FunctionCall("getStaticPaths", "", <<"ctx">>, << >>) >>,
                   << >>) }

\* supabase_schema.tables
SchemaTables == {"users", "orders"}

\* what the other validators report on a script: hallucinations of
\* validate_ts_script, issues of validate_typescript_file, patterns of detect_patterns
Hallucinations ==
  { << >>, << [type |-> "INVALID_IMPORT", severity |-> "HIGH"] >> }
SignatureIssues ==
  { << >>, << [type |-> "MISSING_ARGUMENTS", severity |-> "HIGH"] >> }
PatternDetections ==
  { << >>, << [pattern_type |-> "SECURITY_RISK", severity |-> "CRITICAL", confidence |-> 90],
              [pattern_type |-> "ACCESSIBILITY", severity |-> "INFO", confidence |-> 60] >> }

\* the steps of validate_script, in order
Steps == << "analysis", "react", "neo4j", "supabase", "signatures", "patterns",
            "bad_practices", "confidence", "recommendations", "statistics" >>
\* the steps an exception can be raised in; "rpc" is _validate_rpc_parameters
\* inside the Supabase step
FaultSteps == {"react", "neo4j", "supabase", "rpc", "signatures", "patterns",
               "bad_practices", "confidence", "recommendations", "statistics"}
\* the steps whose body is wrapped in their own try/except
OwnHandler == {"neo4j", "rpc", "signatures", "patterns"}

\* nothing extracted
EmptySource == AnalysisResult(<< >>, << >>, << >>, << >>, << >>)

\* the sets of steps the environment raises in
FaultSets == {fs \in SUBSET FaultSteps : Cardinality(fs) <= MaxFaults}

\* a script to validate: its path, what is on disk (content), how the parser
\* subprocess ends on it, what the parser extracts, what the other validators
\* report, what is configured, and the steps in which the environment raises
Scripts ==
  LET Configured ==
        [path : {"App.tsx", "page.js"}, ts_validator : BOOLEAN, supabase : BOOLEAN,
         faults : FaultSets]
      Script(c, content, parser, source, hallucinations, signature_issues, patterns) ==
        [path |-> c.path, content |-> content, parser |-> parser, source |-> source,
         hallucinations |-> hallucinations, signature_issues |-> signature_issues,
         patterns |-> patterns, ts_validator |-> c.ts_validator,
         supabase |-> c.supabase, faults |-> c.faults]
  IN  \* no file, an empty file, a file that is not TypeScript or JavaScript
      {Script(c, content, "ok", EmptySource, << >>, << >>, << >>) :
         c \in Configured, content \in {"missing", "empty"}}
      \cup {Script(c, "invalid", "nonzero_exit", EmptySource, << >>, << >>, << >>) :
              c \in Configured}
      \* a well-formed file the parser subprocess fails on
      \cup {Script(c, "valid", parser, EmptySource, << >>, << >>, << >>) :
              c \in Configured, parser \in {"timeout", "nonzero_exit"}}
      \* a well-formed file, parsed
      \cup UNION {{Script(c, "valid", "ok", source, h, si, pd) :
                     source \in Sources, si \in SignatureIssues, pd \in PatternDetections} :
                  c \in Configured,
                  h \in Hallucinations}

-----------------------------------------------------------------------------
(* ComprehensiveValidator: what each step of validate_script detects *)

EndsWith(s, suffix) ==
  Len(s) >= Len(suffix) /\ SubSeq(s, Len(s) - Len(suffix) + 1, Len(s)) = suffix

\* _detect_language
DetectLanguage(script_path) ==
  IF EndsWith(script_path, ".ts") \/ EndsWith(script_path, ".tsx") THEN "typescript"
  ELSE IF EndsWith(script_path, ".js") \/ EndsWith(script_path, ".jsx") THEN "javascript"
  ELSE "unknown"

\* analyze_typescript_file: a file that cannot be read gives a result carrying the
\* error, an empty file an empty result, a parser that gives no AST gives None
AnalyzeTypescriptFileOutcome(sc) ==
  IF sc.content = "missing"
  THEN AnalysisResult(<< >>, << >>, << >>, << >>, << "Analysis failed" >>)
  ELSE IF sc.content = "empty" THEN EmptySource
  ELSE IF sc.parser # "ok" THEN NoneAnalysis
  ELSE sc.source

\* the frameworks _detect_react_issues finds in the imports
Frameworks(an) ==
  {fw \in {"react", "next", "vue"} :
     \E i \in 1..Len(an.imports) :
        LET m == StrLower(an.imports[i].module)
        IN  CASE fw = "react" -> StrContains(m, "react")
              [] fw = "next" -> ~StrContains(m, "react") /\ StrContains(m, "next")
              [] OTHER -> ~StrContains(m, "react") /\ ~StrContains(m, "next")
                          /\ StrContains(m, "vue")}

\* _validate_react_hooks
ValidateReactHooks(an) ==
  Flatten([i \in 1..Len(an.hook_calls) |->
    LET hook_name == an.hook_calls[i].hook_name
    IN  IF hook_name \in DOMAIN react_hooks_args
        THEN IF Len(an.hook_calls[i].args) > react_hooks_args[hook_name]
             THEN << Detection("INCORRECT_SIGNATURE", "MEDIUM", 80) >>
             ELSE << >>
        ELSE IF Len(hook_name) > 3 /\ SubSeq(hook_name, 1, 3) = "use"
                /\ IsLower(SubSeq(hook_name, 4, 4))
             THEN << Detection("BAD_PRACTICE", "LOW", 90) >>
             ELSE << >>])

\* _validate_react_components
ValidateReactComponents(an) ==
  Flatten([i \in 1..Len(an.components) |->
    LET component == an.components[i]
    IN  (IF ~IsUpper(SubSeq(component.name, 1, 1))
         THEN << Detection("BAD_PRACTICE", "MEDIUM", 95) >> ELSE << >>)
        \o (IF component.type = "class" /\ component.hooks # << >>
            THEN << Detection("BAD_PRACTICE", "HIGH", 100) >> ELSE << >>)])

\* _validate_framework_signatures
ValidateFrameworkSignatures(an, frameworks) ==
  Flatten([i \in 1..Len(an.function_calls) |->
    LET func_call == an.function_calls[i]
    IN  IF "next" \in frameworks /\ func_call.function_name \in DOMAIN next_signatures_args
           /\ Len(func_call.args) # next_signatures_args[func_call.function_name]
        THEN << Detection("INCORRECT_SIGNATURE", "HIGH", 90) >>
        ELSE << >>])

\* the detections of _detect_react_issues
DetectReactIssuesDetections(an) ==
  ValidateReactHooks(an) \o ValidateReactComponents(an)
  \o ValidateFrameworkSignatures(an, Frameworks(an))

\* the detections of _validate_with_neo4j
ValidateWithNeo4jDetections(sc) ==
  [i \in 1..Len(sc.hallucinations) |->
     Detection(MapTsDetectionType(sc.hallucinations[i].type),
               MapSeverity(sc.hallucinations[i].severity), 80)]

\* the calls of the script that reach _validate_rpc_parameters
RpcCalls(an, schema) ==
  {i \in 1..Len(an.function_calls) :
     LET func_call == an.function_calls[i]
     IN  /\ ~(func_call.object_name # "" /\ func_call.function_name = "from")
         /\ func_call.function_name = "rpc"
         /\ func_call.args # << >>
         /\ StripQuotes(func_call.args[1]) \in
              {schema.functions[k].name : k \in 1..Len(schema.functions)}}

\* _validate_rpc_parameters: the detections of one call, when nothing raises
ValidateRpcParameters(schema, fname, func_call) ==
  IF func_call.rpc_params = << >> THEN << >>
  ELSE LET param_errors == ValidateRpcCall(schema, fname, func_call.rpc_params)
       IN  [k \in 1..Len(param_errors) |->
              Detection(MapRpcValidationType(param_errors[k].validation_type),
                        MapSeverity("HIGH"), 90)]

\* the detections of _validate_supabase_usage; rpc_raises tells that
\* _validate_rpc_parameters raises, which it catches itself
ValidateSupabaseUsageDetections(an, schema, rpc_raises) ==
  LET function_names == {schema.functions[k].name : k \in 1..Len(schema.functions)}
  IN  Flatten([i \in 1..Len(an.function_calls) |->
        LET func_call == an.function_calls[i]
            arg == IF func_call.args = << >> THEN "" ELSE StripQuotes(func_call.args[1])
        IN  IF func_call.object_name # "" /\ func_call.function_name = "from"
            THEN IF arg # "" /\ arg \notin SchemaTables
                 THEN << Detection("SUPABASE_TABLE_NOT_FOUND", "HIGH", 85) >>
                 ELSE << >>
            ELSE IF func_call.function_name = "rpc" /\ func_call.args # << >>
            THEN IF arg # "" /\ arg \notin function_names
                 THEN << Detection("SUPABASE_FUNCTION_NOT_FOUND", "HIGH", 85) >>
                 ELSE IF arg \in function_names /\ ~rpc_raises
                 THEN ValidateRpcParameters(schema, arg, func_call)
                 ELSE << >>
            ELSE << >>])

\* the detections of _validate_signatures
ValidateSignaturesDetections(sc) ==
  [i \in 1..Len(sc.signature_issues) |->
     Detection(MapSignatureType(sc.signature_issues[i].type),
               MapSeverity(sc.signature_issues[i].severity), 80)]

\* the detections of _detect_advanced_patterns
DetectAdvancedPatternsDetections(sc) ==
  [i \in 1..Len(sc.patterns) |->
     Detection(MapPatternType(sc.patterns[i].pattern_type),
               MapSeverity(sc.patterns[i].severity), sc.patterns[i].confidence)]

\* the detections of _detect_bad_practices
DetectBadPracticesDetections(an) ==
  LET non_exported == SelectSeq(an.components, LAMBDA c : ~c.is_exported)
  IN  Flatten([i \in 1..Len(non_exported) |->
                 IF IsUpper(SubSeq(non_exported[i].name, 1, 1))
                 THEN << Detection("BAD_PRACTICE", "LOW", 70) >> ELSE << >>])
      \o Flatten([i \in 1..Len(an.components) |->
                    IF Len(an.components[i].props) > 10
                    THEN << Detection("BAD_PRACTICE", "MEDIUM", 80) >> ELSE << >>])

\* _generate_recommendations, each recommendation named by what it is about
GenerateRecommendations(rep) ==
  LET types == {rep.detections[i].type : i \in 1..Len(rep.detections)}
      About(t) == IF t \in types THEN << t >> ELSE << >>
      recommendations ==
        About("COMPONENT_NOT_FOUND") \o About("SUPABASE_TABLE_NOT_FOUND")
        \o About("INCORRECT_SIGNATURE") \o About("BAD_PRACTICE")
        \o (IF "react" \in rep.frameworks_detected
            THEN << "react_devtools", "hooks_rules" >> ELSE << >>)
        \o (IF rep.language = "typescript" THEN << "strict_mode" >>
            ELSE << "migrate_to_typescript" >>)
  IN  IF recommendations = << >> THEN << "no_major_issues" >> ELSE recommendations

\* _calculate_statistics, as the (key, value) pairs of the dict
CalculateStatistics(rep) ==
  LET Count(sv) == Cardinality({i \in 1..Len(rep.detections) :
                                  rep.detections[i].severity = sv})
  IN  << <<"total_detections", Len(rep.detections)>>,
         <<"critical_issues", Count("CRITICAL")>>,
         <<"high_issues", Count("HIGH")>>,
         <<"medium_issues", Count("MEDIUM")>>,
         <<"low_issues", Count("LOW")>>,
         <<"frameworks_detected", Cardinality(rep.frameworks_detected)>> >>
      \o (IF rep.supabase_info
          THEN << <<"supabase_tables", Cardinality(SchemaTables)>>,
                  <<"supabase_functions", Len(Functions)>> >>
          ELSE << >>)

-----------------------------------------------------------------------------
(* ComprehensiveValidator.validate_script as a state machine: vpc is the step *)
(* about to run, ran the steps run so far, swallowed the steps whose own      *)
(* handler caught an exception                                                *)

\* no script is validated
ValOff ==
  /\ script = "none"
  /\ analysis = "none"
  /\ report = "none"
  /\ vpc = "off"
  /\ ran = << >>
  /\ swallowed = << >>

\* ValidationReport(script_path, language, analysis_timestamp, overall_confidence=0.0)
ValidationReport(script_path) ==
  [script_path |-> script_path, language |-> DetectLanguage(script_path),
   overall_confidence |-> Frac(0, 1), detections |-> << >>,
   frameworks_detected |-> {}, supabase_info |-> FALSE,
   recommendations |-> << >>, statistics |-> << >>]

\* validate_script(script_path) is entered
ValInit ==
  /\ script \in Scripts
  /\ analysis = "none"
  /\ report = ValidationReport(script.path)
  /\ vpc = "analysis"
  /\ ran = << >>
  /\ swallowed = << >>

\* the exception "Validation failed" reports, and the one a parse failure reports
CriticalDetection == Detection("INVALID_TYPE", "CRITICAL", 100)

\* the step raises: the environment fails in it, or it opens a file that is not there
StepRaises(step) ==
  \/ step \in script.faults
  \/ script.content = "missing" /\ step \in {"rpc", "signatures", "patterns"}

\* the detections appended before an exception interrupts a step
Interrupted(detections) == {SubSeq(detections, 1, k) : k \in 0..Len(detections)}

\* the database catalog of a validator with Supabase configured
LoadedSchema == Schema(Len(Functions))

\* a step of the try block that has no handler of its own: an exception in it
\* reaches the handler of validate_script
Unprotected(step, detections, next) ==
  /\ vpc = step
  /\ ran' = Append(ran, step)
  /\ IF StepRaises(step)
     THEN /\ \E done \in Interrupted(detections) :
               report' = [report EXCEPT !.detections = @ \o done]
          /\ vpc' = "except"
     ELSE /\ report' = [report EXCEPT !.detections = @ \o detections]
          /\ vpc' = next
  /\ UNCHANGED <<script, analysis, swallowed>>

\* a step whose body is inside its own try/except that logs and goes on
Protected(step, enabled, detections, next) ==
  /\ vpc = step
  /\ vpc' = next
  /\ IF ~enabled THEN UNCHANGED <<report, ran, swallowed>>
     ELSE /\ ran' = Append(ran, step)
          /\ IF StepRaises(step)
             THEN /\ \E done \in Interrupted(detections) :
                       report' = [report EXCEPT !.detections = @ \o done]
                  /\ swallowed' = Append(swallowed, step)
             ELSE /\ report' = [report EXCEPT !.detections = @ \o detections]
                  /\ UNCHANGED swallowed
  /\ UNCHANGED <<script, analysis>>

\* step 1: ts_analyzer.analyze_typescript_file(...) and "if not analysis"
Analyze ==
  /\ vpc = "analysis"
  /\ ran' = Append(ran, "analysis")
  /\ analysis' = AnalyzeTypescriptFileOutcome(script)
  /\ IF analysis'.is_none
     THEN /\ report' = [report EXCEPT !.detections = Append(@, CriticalDetection)]
          /\ vpc' = "returned"
     ELSE /\ vpc' = "react"
          /\ UNCHANGED report
  /\ UNCHANGED <<script, swallowed>>
  /\ UNCHANGED nonValVars

\* step 2: _detect_react_issues
DetectReactIssues ==
  /\ vpc = "react"
  /\ ran' = Append(ran, "react")
  /\ IF StepRaises("react")
     THEN /\ \E done \in Interrupted(DetectReactIssuesDetections(analysis)) :
               report' = [report EXCEPT !.frameworks_detected = Frameworks(analysis),
                                        !.detections = @ \o done]
          /\ vpc' = "except"
     ELSE /\ report' = [report EXCEPT !.frameworks_detected = Frameworks(analysis),
                                      !.detections = @ \o DetectReactIssuesDetections(analysis)]
          /\ vpc' = "neo4j"
  /\ UNCHANGED <<script, analysis, swallowed>>
  /\ UNCHANGED nonValVars

\* step 3: _validate_with_neo4j, if self.ts_validator
ValidateWithNeo4j ==
  /\ Protected("neo4j", script.ts_validator, ValidateWithNeo4jDetections(script), "supabase")
  /\ UNCHANGED nonValVars

\* step 4: _validate_supabase_usage, if self.supabase_schema; the calls to
\* _validate_rpc_parameters inside it catch their own exceptions
ValidateSupabaseUsage ==
  /\ vpc = "supabase"
  /\ IF ~script.supabase
     THEN /\ vpc' = "signatures"
          /\ UNCHANGED <<report, ran, swallowed>>
     ELSE LET rpc_raises == StepRaises("rpc")
              detections == ValidateSupabaseUsageDetections(analysis, LoadedSchema, rpc_raises)
              info == \E i \in 1..Len(analysis.imports) :
                         StrContains(StrLower(analysis.imports[i].module), "supabase")
              rpc_calls == RpcCalls(analysis, LoadedSchema)
          IN  /\ ran' = Append(ran, "supabase")
              /\ IF StepRaises("supabase")
                 THEN /\ \E done \in Interrupted(detections) :
                           report' = [report EXCEPT !.supabase_info = info,
                                                    !.detections = @ \o done]
                      /\ vpc' = "except"
                      /\ UNCHANGED swallowed
                 ELSE /\ report' = [report EXCEPT !.supabase_info = info,
                                                  !.detections = @ \o detections]
                      /\ vpc' = "signatures"
                      /\ swallowed' = IF rpc_raises /\ rpc_calls # {}
                                      THEN Append(swallowed, "rpc") ELSE swallowed
  /\ UNCHANGED <<script, analysis>>
  /\ UNCHANGED nonValVars

\* step 5: _validate_signatures
ValidateSignatures ==
  /\ Protected("signatures", TRUE, ValidateSignaturesDetections(script), "patterns")
  /\ UNCHANGED nonValVars

\* step 6: _detect_advanced_patterns
DetectAdvancedPatterns ==
  /\ Protected("patterns", TRUE, DetectAdvancedPatternsDetections(script), "bad_practices")
  /\ UNCHANGED nonValVars

\* step 7: _detect_bad_practices
DetectBadPractices ==
  /\ Unprotected("bad_practices", DetectBadPracticesDetections(analysis), "confidence")
  /\ UNCHANGED nonValVars

\* step 8: report.overall_confidence = self._calculate_overall_confidence(report)
CalculateConfidence ==
  /\ vpc = "confidence"
  /\ ran' = Append(ran, "confidence")
  /\ IF StepRaises("confidence")
     THEN vpc' = "except" /\ UNCHANGED report
     ELSE /\ vpc' = "recommendations"
          /\ report' = [report EXCEPT !.overall_confidence =
                                         CalculateOverallConfidence(report.detections)]
  /\ UNCHANGED <<script, analysis, swallowed>>
  /\ UNCHANGED nonValVars

\* step 9: report.recommendations = self._generate_recommendations(report)
Recommend ==
  /\ vpc = "recommendations"
  /\ ran' = Append(ran, "recommendations")
  /\ IF StepRaises("recommendations")
     THEN vpc' = "except" /\ UNCHANGED report
     ELSE /\ vpc' = "statistics"
          /\ report' = [report EXCEPT !.recommendations = GenerateRecommendations(report)]
  /\ UNCHANGED <<script, analysis, swallowed>>
  /\ UNCHANGED nonValVars

\* step 10: report.statistics = self._calculate_statistics(report), then return
Statistics ==
  /\ vpc = "statistics"
  /\ ran' = Append(ran, "statistics")
  /\ IF StepRaises("statistics")
     THEN vpc' = "except" /\ UNCHANGED report
     ELSE /\ vpc' = "returned"
          /\ report' = [report EXCEPT !.statistics = CalculateStatistics(report)]
  /\ UNCHANGED <<script, analysis, swallowed>>
  /\ UNCHANGED nonValVars

\* except Exception in validate_script: one CRITICAL detection, then return
ValidationFailed ==
  /\ vpc = "except"
  /\ report' = [report EXCEPT !.detections = Append(@, CriticalDetection)]
  /\ vpc' = "returned"
  /\ UNCHANGED <<script, analysis, ran, swallowed>>
  /\ UNCHANGED nonValVars

ValNext ==
  \/ Analyze
  \/ DetectReactIssues
  \/ ValidateWithNeo4j
  \/ ValidateSupabaseUsage
  \/ ValidateSignatures
  \/ DetectAdvancedPatterns
  \/ DetectBadPractices
  \/ CalculateConfidence
  \/ Recommend
  \/ Statistics
  \/ ValidationFailed

-----------------------------------------------------------------------------
(* _calculate_overall_confidence on a report that grows by one detection *)

\* the most detections of a report
MaxDetections == 3

\* the confidences detections carry, in hundredths
Confidences == {0, 70, 100}

\* a report without detections, as _calculate_overall_confidence scores it
ConfInit ==
  /\ script = "none"
  /\ analysis = "none"
  /\ report = [ValidationReport("App.tsx") EXCEPT
                 !.overall_confidence = CalculateOverallConfidence(<< >>)]
  /\ vpc = "scored"
  /\ ran = << >>
  /\ swallowed = << >>

\* report.detections.append(Detection(...)), and the report is scored again
AppendDetection ==
  /\ vpc = "scored"
  /\ Len(report.detections) < MaxDetections
  /\ \E severity \in Severities, confidence \in Confidences :
       LET detections == Append(report.detections,
                                Detection("BAD_PRACTICE", severity, confidence))
       IN  report' = [report EXCEPT !.detections = detections,
                                    !.overall_confidence =
                                       CalculateOverallConfidence(detections)]
  /\ UNCHANGED <<script, analysis, vpc, ran, swallowed>>
  /\ UNCHANGED nonValVars

ConfNext == AppendDetection

-----------------------------------------------------------------------------
(* Regular expressions on TLC strings, as far as the validators' patterns need them *)

WordChars == "abcdefghijklmnopqrstuvwxyzABCDEFGHIJKLMNOPQRSTUVWXYZ0123456789_"
Spaces == " "

\* F applied to the value of x: x is evaluated here, not at each use inside F
ByValue(F(_), x) == [v \in {x} |-> F(v)][x]

\* the character at a position, "" past the end
CharAt(s, i) == IF i \in 1..Len(s) THEN SubSeq(s, i, i) ELSE ""

\* where a greedy [chars]* starting at i stops
SkipIn(s, i, chars) ==
  CHOOSE j \in i..(Len(s) + 1) :
    /\ \A k \in i..(j - 1) : InChars(SubSeq(s, k, k), chars)
    /\ j = Len(s) + 1 \/ ~ InChars(SubSeq(s, j, j), chars)

\* where a greedy [^chars]* starting at i stops
SkipNotIn(s, i, chars) ==
  CHOOSE j \in i..(Len(s) + 1) :
    /\ \A k \in i..(j - 1) : ~ InChars(SubSeq(s, k, k), chars)
    /\ j = Len(s) + 1 \/ InChars(SubSeq(s, j, j), chars)

StartsWithAt(s, i, prefix) ==
  i + Len(prefix) - 1 <= Len(s) /\ SubSeq(s, i, i + Len(prefix) - 1) = prefix

\* the elements of a pattern.  The patterns below need no backtracking: every
\* repetition is followed by a character outside its class (or by the end).
Lit(text) == [k |-> "lit", v |-> text, cap |-> FALSE]          \* the text itself
Many(chars) == [k |-> "in*", v |-> chars, cap |-> FALSE]       \* [chars]*
Some(chars) == [k |-> "in+", v |-> chars, cap |-> FALSE]       \* [chars]+
ManyNot(chars) == [k |-> "notin*", v |-> chars, cap |-> FALSE] \* [^chars]*
SomeNot(chars) == [k |-> "notin+", v |-> chars, cap |-> FALSE] \* [^chars]+
OptKeyword(word) == [k |-> "optkw", v |-> word, cap |-> FALSE] \* (word\s+)?
OptGenerics == [k |-> "optgen", v |-> "", cap |-> FALSE]       \* (<[^>]*>)?
AnySome == [k |-> "any+", v |-> "", cap |-> FALSE]             \* .+
Upper == [k |-> "upper", v |-> "", cap |-> FALSE]              \* [A-Z]
OneOf(chars) == [k |-> "in1", v |-> chars, cap |-> FALSE]      \* [chars]
Dotted == [k |-> "dotted*", v |-> "", cap |-> FALSE]           \* (?:\.[a-zA-Z_]\w*)*
Group(step) == [step EXCEPT !.cap = TRUE]                      \* ( ... ) around one element
Open == [k |-> "open", v |-> "", cap |-> FALSE]                \* ( of a longer group
Close == [k |-> "close", v |-> "", cap |-> FALSE]              \* ) of a longer group

IdentStart == "abcdefghijklmnopqrstuvwxyzABCDEFGHIJKLMNOPQRSTUVWXYZ_"

RECURSIVE SkipDotted(_, _)
\* where a greedy (?:\.[a-zA-Z_]\w*)* starting at i stops
SkipDotted(s, i) ==
  IF CharAt(s, i) = "." /\ InChars(CharAt(s, i + 1), IdentStart)
  THEN ByValue(LAMBDA j : SkipDotted(s, j), SkipIn(s, i + 2, WordChars))
  ELSE i

\* where one element matched at i ends; 0 when it does not match
StepEnd(s, i, step) ==
  CASE step.k = "lit" -> IF StartsWithAt(s, i, step.v) THEN i + Len(step.v) ELSE 0
    [] step.k = "in*" -> SkipIn(s, i, step.v)
    [] step.k = "in+" -> IF SkipIn(s, i, step.v) > i THEN SkipIn(s, i, step.v) ELSE 0
    [] step.k = "notin*" -> SkipNotIn(s, i, step.v)
    [] step.k = "notin+" -> IF SkipNotIn(s, i, step.v) > i THEN SkipNotIn(s, i, step.v) ELSE 0
    [] step.k = "optkw" ->
         IF StartsWithAt(s, i, step.v) /\ InChars(CharAt(s, i + Len(step.v)), Spaces)
         THEN SkipIn(s, i + Len(step.v), Spaces)
         ELSE i
    [] step.k = "optgen" ->
         IF CharAt(s, i) = "<" /\ SkipNotIn(s, i + 1, ">") <= Len(s)
         THEN SkipNotIn(s, i + 1, ">") + 1
         ELSE i
    [] step.k = "any+" -> IF i <= Len(s) THEN Len(s) + 1 ELSE 0
    [] step.k = "upper" -> IF IsUpper(CharAt(s, i)) THEN i + 1 ELSE 0
    [] step.k = "in1" -> IF InChars(CharAt(s, i), step.v) THEN i + 1 ELSE 0
    [] step.k = "dotted*" -> SkipDotted(s, i)
    [] step.k \in {"open", "close"} -> i
    [] OTHER -> 0

\* a match in progress: the position reached (0: failed), the groups captured and
\* where the group being captured began
MatchState(pos, groups, open) == [pos |-> pos, groups |-> groups, open |-> open]

AfterStep(s, st, step) ==
  LET j == StepEnd(s, st.pos, step)
  IN  IF j = 0 THEN MatchState(0, << >>, 0)
      ELSE MatchState(j,
                      CASE step.cap -> Append(st.groups, SubSeq(s, st.pos, j - 1))
                        [] step.k = "close" -> Append(st.groups, SubSeq(s, st.open, j - 1))
                        [] OTHER -> st.groups,
                      IF step.k = "open" THEN j ELSE st.open)

RECURSIVE MatchSteps(_, _, _)
\* the elements of a pattern matched one after the other from a state
MatchSteps(s, st, steps) ==
  IF st.pos = 0 \/ steps = << >> THEN st
  ELSE ByValue(LAMBDA next : MatchSteps(s, next, Tail(steps)), AfterStep(s, st, Head(steps)))

\* re.match(pattern, s) at position i: the end of the match and its groups
MatchAt(s, i, pattern) == MatchSteps(s, MatchState(i, << >>, 0), pattern)

\* the leftmost match of a pattern that starts at position i or later (the patterns
\* match no empty text): where it starts, where it ends (0: no match), its groups
SearchFrom(s, i, pattern) ==
  ByValue(LAMBDA starts :
            IF starts = {} THEN [start |-> 0, pos |-> 0, groups |-> << >>]
            ELSE ByValue(LAMBDA start : [start |-> start,
                                         pos |-> MatchAt(s, start, pattern).pos,
                                         groups |-> MatchAt(s, start, pattern).groups],
                         CHOOSE j \in starts : \A k \in starts : j <= k),
          {j \in i..Len(s) : MatchAt(s, j, pattern).pos # 0})

\* re.search(pattern, s)
Search(s, pattern) == SearchFrom(s, 1, pattern)

RECURSIVE FindAllFrom(_, _, _)
\* re.findall(pattern, s): the groups of the successive non-overlapping matches;
\* scan is <<position, matches found so far>>
FindAllFrom(s, scan, pattern) ==
  ByValue(LAMBDA m : IF m.pos = 0 THEN scan[2]
                     ELSE ByValue(LAMBDA next : FindAllFrom(s, next, pattern),
                                  << m.pos, Append(scan[2], m.groups) >>),
          SearchFrom(s, scan[1], pattern))

FindAll(s, pattern) == FindAllFrom(s, << 1, << >> >>, pattern)

\* s.strip()
Strip(s) ==
  LET a == SkipIn(s, 1, Spaces)
      b == CHOOSE j \in (a - 1)..Len(s) :
             /\ j = a - 1 \/ ~ InChars(SubSeq(s, j, j), Spaces)
             /\ \A k \in (j + 1)..Len(s) : InChars(SubSeq(s, k, k), Spaces)
  IN  SubSeq(s, a, b)

RECURSIVE SplitFrom(_, _, _)
\* s.split(sep) for a one-character separator; scan is <<start of the current part,
\* parts found so far>>
SplitFrom(s, scan, sep) ==
  ByValue(LAMBDA j : IF j > Len(s) THEN Append(scan[2], SubSeq(s, scan[1], Len(s)))
                     ELSE ByValue(LAMBDA next : SplitFrom(s, next, sep),
                                  << j + 1, Append(scan[2], SubSeq(s, scan[1], j - 1)) >>),
          SkipNotIn(s, scan[1], sep))

Split(s, sep) == SplitFrom(s, << 1, << >> >>, sep)

-----------------------------------------------------------------------------
(* SignatureValidator: the regular expressions of _parse_typescript_content *)

\* r'interface\s+(\w+)(<[^>]*>)?\s*({.*?}|\{)'
interface_pattern ==
  << Lit("interface"), Some(Spaces), Group(Some(WordChars)), OptGenerics, Many(Spaces),
     Lit("{") >>

\* r'type\s+(\w+)(<[^>]*>)?\s*=\s*(.+)'
type_pattern ==
  << Lit("type"), Some(Spaces), Group(Some(WordChars)), OptGenerics, Many(Spaces),
     Lit("="), AnySome >>

\* r'(export\s+)?(async\s+)?function\s+(\w+)(<[^>]*>)?\s*\(([^)]*)\)\s*:\s*([^{]+)'
func_pattern ==
  << OptKeyword("export"), OptKeyword("async"), Lit("function"), Some(Spaces),
     Group(Some(WordChars)), OptGenerics, Many(Spaces), Lit("("), Group(ManyNot(")")),
     Lit(")"), Many(Spaces), Lit(":"), SomeNot("{") >>

\* r'(\w+)\s*\(([^)]*)\)': the argument text ends at the first closing parenthesis
call_pattern ==
  << Group(Some(WordChars)), Many(Spaces), Lit("("), Group(ManyNot(")")), Lit(")") >>

\* r':\s*([A-Z]\w*(?:<[^>]*>)?)'; _extract_base_type keeps what stands before the
\* generics, which is the group captured here
type_usage_pattern ==
  << Lit(":"), Many(Spaces), Open, Upper, Many(WordChars), Close, OptGenerics >>

-----------------------------------------------------------------------------
(* SignatureValidator: definitions, usages, checks *)

builtin_types ==
  {"string", "number", "boolean", "bigint", "symbol", "undefined", "null", "void", "any",
   "unknown", "never", "object", "Object", "Array", "Promise", "Date", "RegExp", "Error",
   "Map", "Set", "WeakMap", "WeakSet", "Function", "CallableFunction", "NewableFunction",
   "ReactNode", "ReactElement", "ReactChild", "ReactChildren", "ReactFragment",
   "ReactPortal", "JSX.Element", "JSX.IntrinsicElements", "ComponentType",
   "FunctionComponent", "FC", "Component", "PureComponent", "RefObject",
   "MutableRefObject", "HTMLElement", "HTMLDivElement", "HTMLInputElement",
   "HTMLButtonElement", "Event", "MouseEvent", "KeyboardEvent", "Partial", "Required",
   "Readonly", "Record", "Pick", "Omit", "Exclude", "Extract", "NonNullable"}

\* a Parameter: its name and the two flags the arity check reads
Parameter(name, is_optional, is_rest) ==
  [name |-> name, is_optional |-> is_optional, is_rest |-> is_rest]

react_hook_signatures ==
  [h \in {"useState", "useEffect", "useContext", "useCallback", "useMemo", "useRef"} |->
     CASE h = "useState" -> << Parameter("initialState", TRUE, FALSE) >>
       [] h = "useEffect" -> << Parameter("effect", FALSE, FALSE),
                                Parameter("deps", TRUE, FALSE) >>
       [] h = "useContext" -> << Parameter("context", FALSE, FALSE) >>
       [] h = "useCallback" -> << Parameter("callback", FALSE, FALSE),
                                  Parameter("deps", FALSE, FALSE) >>
       [] h = "useMemo" -> << Parameter("factory", FALSE, FALSE),
                              Parameter("deps", FALSE, FALSE) >>
       [] OTHER -> << Parameter("initialValue", TRUE, FALSE) >>]

HasChar(s, c) == SkipNotIn(s, 1, c) <= Len(s)

\* s.endswith('?') and s.rstrip('?')
EndsWithMark(s) == s # "" /\ SubSeq(s, Len(s), Len(s)) = "?"
RStripMark(s) ==
  SubSeq(s, 1, CHOOSE j \in 0..Len(s) :
                 /\ j = 0 \/ SubSeq(s, j, j) # "?"
                 /\ \A k \in (j + 1)..Len(s) : SubSeq(s, k, k) = "?")

\* _parse_parameters, one part of params_str.split(','), stripped and without the
\* '...' of a rest parameter: a parameter is optional when its name ends in '?', or
\* when it has a type annotation and a default value
ParsePart(part, is_rest) ==
  LET colon == SkipNotIn(part, 1, ":")
      name_part == Strip(SubSeq(part, 1, colon - 1))
      type_part == SubSeq(part, colon + 1, Len(part))
  IN  IF HasChar(part, ":")
      THEN Parameter(RStripMark(name_part),
                     EndsWithMark(name_part) \/ HasChar(type_part, "="), is_rest)
      ELSE Parameter(RStripMark(Strip(part)), EndsWithMark(Strip(part)), is_rest)

ParseParameter(stripped) ==
  IF StartsWithAt(stripped, 1, "...")
  THEN ByValue(LAMBDA part : ParsePart(part, TRUE), SubSeq(stripped, 4, Len(stripped)))
  ELSE ParsePart(stripped, FALSE)

NonEmpty(s) == s # ""

\* _parse_parameters
ParseParameters(params_str) ==
  IF Strip(params_str) = "" THEN << >>
  ELSE ByValue(LAMBDA parts : MapSeq(parts, ParseParameter),
               SelectSeq(MapSeq(Split(params_str, ","), Strip), NonEmpty))

\* _parse_call_args
ParseCallArgs(args_str) ==
  IF Strip(args_str) = "" THEN << >>
  ELSE SelectSeq(MapSeq(Split(args_str, ","), Strip), NonEmpty)

\* what _parse_typescript_content collects from line i of the content, the line
\* already stripped
ParseStripped(line, i) ==
  LET skip == line = "" \/ StartsWithAt(line, 1, "//")
      Named(pattern) ==
        ByValue(LAMBDA m : IF skip \/ m.pos = 0 THEN << >>
                           ELSE << [name |-> m.groups[1], line |-> i] >>,
                MatchAt(line, 1, pattern))
  IN  [interfaces |-> Named(interface_pattern),
       types |-> Named(type_pattern),
       functions |->
         ByValue(LAMBDA m : IF skip \/ m.pos = 0 THEN << >>
                            ELSE << [name |-> m.groups[1], params |-> m.groups[2],
                                     line |-> i] >>,
                 MatchAt(line, 1, func_pattern)),
       calls |-> IF skip THEN << >>
                 ELSE MapSeq(FindAll(line, call_pattern),
                             LAMBDA g : [function |-> g[1], args |-> g[2], line |-> i]),
       usages |-> IF skip THEN << >>
                  ELSE MapSeq(FindAll(line, type_usage_pattern), LAMBDA g : g[1])]

ParseLine(raw, i) == ByValue(LAMBDA line : ParseStripped(line, i), Strip(raw))

\* _parse_typescript_content
ParseLines(lines) ==
  ByValue(LAMBDA per :
            [interfaces |-> Flatten([i \in 1..Len(lines) |-> per[i].interfaces]),
             types |-> Flatten([i \in 1..Len(lines) |-> per[i].types]),
             functions |-> Flatten([i \in 1..Len(lines) |-> per[i].functions]),
             calls |-> Flatten([i \in 1..Len(lines) |-> per[i].calls]),
             usages |-> Flatten([i \in 1..Len(lines) |-> per[i].usages])],
          [i \in 1..Len(lines) |-> ParseLine(lines[i], i)])

ParseTypescriptContent(content) == ByValue(ParseLines, Split(content, "\n"))

\* a dict filled in order from entries with a name: the names in insertion order and,
\* for each, the last entry
DictKeys(entries) ==
  MapSeq(SelectSeq([i \in 1..Len(entries) |-> i],
                   LAMBDA i : \A j \in 1..(i - 1) : entries[j].name # entries[i].name),
         LAMBDA i : entries[i].name)
DictGet(entries, name) ==
  entries[CHOOSE i \in 1..Len(entries) :
            /\ entries[i].name = name
            /\ \A j \in (i + 1)..Len(entries) : entries[j].name # name]

\* a ValidationIssue: type, severity, the name its message is about, its line
ValidationIssue(type, severity, name, line) ==
  [type |-> type, severity |-> severity, name |-> name, line |-> line]

\* _extract_type_definitions: defined_types, interfaces first, then type aliases
DefinedTypes(parsed) == parsed.interfaces \o parsed.types

\* _extract_function_signatures: defined_functions
DefinedFunctions(parsed) ==
  MapSeq(parsed.functions,
         LAMBDA f : [name |-> f.name, line |-> f.line,
                     parameters |-> IF f.params # "" THEN ParseParameters(f.params)
                                    ELSE << >>])

\* _extract_function_calls: function_calls
FunctionCalls(parsed) ==
  MapSeq(parsed.calls,
         LAMBDA c : [function |-> c.function, args |-> ParseCallArgs(c.args), line |-> c.line])

\* _validate_type_consistency (the used types taken in order of first use)
ValidateTypeConsistency(parsed) ==
  LET used == parsed.usages
      first == SelectSeq([i \in 1..Len(used) |-> i],
                         LAMBDA i : \A j \in 1..(i - 1) : used[j] # used[i])
  IN  Flatten(MapSeq(first,
        LAMBDA i :
          IF /\ used[i] \notin SeqToSet(DictKeys(DefinedTypes(parsed)))
             /\ used[i] \notin builtin_types
          THEN << ValidationIssue("TYPE_NOT_DEFINED", "HIGH", used[i], 0) >>
          ELSE << >>))

\* the parameters _validate_function_call counts as required
RequiredParameters(expected_params) ==
  {i \in 1..Len(expected_params) :
     ~ expected_params[i].is_optional /\ ~ expected_params[i].is_rest}

\* _validate_function_call
ValidateFunctionCall(func_name, expected_params, provided_args, line) ==
  LET provided_count == Len(provided_args)
      required_count == Cardinality(RequiredParameters(expected_params))
      unbounded == \E i \in 1..Len(expected_params) : expected_params[i].is_rest
  IN  IF provided_count < required_count
      THEN << ValidationIssue("MISSING_ARGUMENTS", "HIGH", func_name, line) >>
      ELSE IF ~ unbounded /\ provided_count > Len(expected_params)
      THEN << ValidationIssue("TOO_MANY_ARGUMENTS", "MEDIUM", func_name, line) >>
      ELSE << >>

\* _validate_function_signatures
ValidateFunctionSignatures(parsed) ==
  LET defined == DefinedFunctions(parsed)
  IN  Flatten(MapSeq(FunctionCalls(parsed),
        LAMBDA call :
          IF call.function \in DOMAIN react_hook_signatures
          THEN ValidateFunctionCall(call.function, react_hook_signatures[call.function],
                                    call.args, call.line)
          ELSE IF call.function \in SeqToSet(DictKeys(defined))
          THEN ValidateFunctionCall(call.function,
                                    DictGet(defined, call.function).parameters,
                                    call.args, call.line)
          ELSE << >>))

\* _check_missing_definitions
CheckMissingDefinitions(parsed) ==
  LET types == DefinedTypes(parsed)
      funcs == DefinedFunctions(parsed)
      called_functions == {parsed.calls[i].function : i \in 1..Len(parsed.calls)}
  IN  Flatten(MapSeq(DictKeys(types),
        LAMBDA n : IF n \notin SeqToSet(parsed.usages)
                   THEN << ValidationIssue("UNUSED_TYPE", "LOW", n, DictGet(types, n).line) >>
                   ELSE << >>))
      \o Flatten(MapSeq(DictKeys(funcs),
        LAMBDA n : IF n \notin called_functions
                   THEN << ValidationIssue("UNUSED_FUNCTION", "LOW", n,
                                           DictGet(funcs, n).line) >>
                   ELSE << >>))

\* the issues validate_typescript_file appends to self.issues after clear_state
IssuesOfParsed(parsed) ==
  ValidateTypeConsistency(parsed)
  \o ValidateFunctionSignatures(parsed)
  \o CheckMissingDefinitions(parsed)

SignatureIssuesOf(content) == ByValue(IssuesOfParsed, ParseTypescriptContent(content))

-----------------------------------------------------------------------------
(* One SignatureValidator instance validating files one after the other *)

\* the most files one instance validates
MaxValidations == 3

\* a declared function as TypeScript reads the declaration: required parameters
\* (no '?', no default, not rest), declared parameters, whether one is a rest parameter
Declares(name, required, declared, has_rest) ==
  [name |-> name, required |-> required, declared |-> declared, has_rest |-> has_rest]

\* a call written in the file: the function called, its line, how many arguments
CallSite(function, line, arguments) ==
  [function |-> function, line |-> line, arguments |-> arguments]

\* the files validated: the text, and what the text declares, calls, references
\* elsewhere in the file, and never references
SigFiles ==
  << [path |-> "math.ts",
      content |-> "function add(a: number, b: number): number {\nadd(1, 2)\nadd(1)\nadd(1, 2, 3)",
      declares |-> {Declares("add", 2, 2, FALSE)},
      calls |-> {CallSite("add", 2, 2), CallSite("add", 3, 1), CallSite("add", 4, 3)},
      referenced |-> {"add"}, unreferenced |-> {}],
     [path |-> "nested.ts",
      content |-> "function add(a: number, b: number): number {\nadd(inc(1), 2)",
      declares |-> {Declares("add", 2, 2, FALSE)},
      calls |-> {CallSite("add", 2, 2)},
      referenced |-> {"add"}, unreferenced |-> {}],
     [path |-> "log.ts",
      content |-> "function log(msg: string, level = 1): void {\nlog(msg)",
      declares |-> {Declares("log", 1, 2, FALSE)},
      calls |-> {CallSite("log", 2, 1)},
      referenced |-> {"log"}, unreferenced |-> {}],
     [path |-> "unused.ts",
      content |-> "function unused(a: number): void {",
      declares |-> {Declares("unused", 1, 1, FALSE)},
      calls |-> {},
      referenced |-> {}, unreferenced |-> {"unused"}],
     [path |-> "types.ts",
      content |-> "type Id = string\ninterface User {\nconst u: User = load()",
      declares |-> {}, calls |-> {},
      referenced |-> {"User"}, unreferenced |-> {"Id"}],
     [path |-> "items.ts",
      content |-> "interface Item {\nconst xs: Array<Item> = []",
      declares |-> {}, calls |-> {},
      referenced |-> {"Item"}, unreferenced |-> {}],
     [path |-> "rest.ts",
      content |-> "function sum(first: number, ...rest: number[]): number {\nsum(1, 2, 3)\nsum()",
      declares |-> {Declares("sum", 1, 2, TRUE)},
      calls |-> {CallSite("sum", 2, 3), CallSite("sum", 3, 0)},
      referenced |-> {"sum"}, unreferenced |-> {}] >>

\* the issues the checks append for each of the files
SigResults == [f \in 1..Len(SigFiles) |-> SignatureIssuesOf(SigFiles[f].content)]

\* SignatureValidator(): self.issues is bound to a new empty list (object 1 of the
\* heap), and never bound again
SigInit ==
  sigv = [heap |-> << << >> >>, issues |-> 1, returned |-> << >>]

\* validate_typescript_file(path, content): clear_state empties the list self.issues
\* is bound to, the checks append to that list, and the method returns that list
\* itself.  returned keeps, for each call, the object returned and (history) what it
\* held at the return.
ValidateTypescriptFile(f) ==
  /\ sigv.heap # << >>
  /\ Len(sigv.returned) < MaxValidations
  /\ LET cleared == [sigv.heap EXCEPT ![sigv.issues] = << >>]
         filled == [cleared EXCEPT ![sigv.issues] =
                      @ \o SigResults[f]]
     IN  sigv' = [sigv EXCEPT
                    !.heap = filled,
                    !.returned = Append(@, [file |-> f, ref |-> sigv.issues,
                                            value |-> filled[sigv.issues]])]
  /\ UNCHANGED nonSigVars

SigNext == \E f \in 1..Len(SigFiles) : ValidateTypescriptFile(f)

-----------------------------------------------------------------------------
(* parse_rpc_parameters: the argument object of an RPC call, read from the text *)

\* \s, as far as the texts below hold it
Whitespace == " \n"

\* rf"\.rpc\s*\(\s*['\"]({re.escape(function_name)})['\"],\s*(\{{[^}}]*\}}|\{{[^}}]+\}})";
\* the group captured here is the second, the argument object
rpc_pattern(fname) ==
  << Lit(".rpc"), Many(Whitespace), Lit("("), Many(Whitespace), OneOf("'\""),
     Lit(fname), OneOf("'\""), Lit(","), Many(Whitespace),
     Open, Lit("{"), ManyNot("}"), Lit("}"), Close >>

\* r'(\w+):'
key_pattern == << Group(Some(WordChars)), Lit(":") >>
\* r':\s*([a-zA-Z_]\w*(?:\.[a-zA-Z_]\w*)*)'
variable_pattern ==
  << Lit(":"), Many(Whitespace), Open, OneOf(IdentStart), Many(WordChars), Dotted, Close >>

\* r'"\1":' and r': "VARIABLE_\1"'
Replacement(pattern, groups) ==
  IF pattern = key_pattern THEN "\"" \o groups[1] \o "\":"
  ELSE ": \"VARIABLE_" \o groups[1] \o "\""

RECURSIVE SubFrom(_, _, _)
\* re.sub(pattern, replacement, s); scan is <<position, text written so far>>
SubFrom(s, scan, pattern) ==
  ByValue(LAMBDA m :
            IF m.pos = 0 THEN scan[2] \o SubSeq(s, scan[1], Len(s))
            ELSE ByValue(LAMBDA next : SubFrom(s, next, pattern),
                         << m.pos, scan[2] \o SubSeq(s, scan[1], m.start - 1)
                                           \o Replacement(pattern, m.groups) >>),
          SearchFrom(s, scan[1], pattern))

Sub(pattern, s) == SubFrom(s, << 1, "" >>, pattern)

\* a member of a JSON object: "name": "text" or "name": digits
string_member ==
  << Many(Whitespace), Lit("\""), Group(ManyNot("\"\\")), Lit("\""), Many(Whitespace),
     Lit(":"), Many(Whitespace), Lit("\""), Group(ManyNot("\"\\")), Lit("\""),
     Many(Whitespace) >>
integer_member ==
  << Many(Whitespace), Lit("\""), Group(ManyNot("\"\\")), Lit("\""), Many(Whitespace),
     Lit(":"), Many(Whitespace), Group(Some(Digits)), Many(Whitespace) >>

\* d[name] = value on a dict kept as its items in insertion order
DictSet(items, name, value) ==
  IF \E i \in 1..Len(items) : items[i].name = name
  THEN [i \in 1..Len(items) |->
          IF items[i].name = name THEN [name |-> name, value |-> value] ELSE items[i]]
  ELSE Append(items, [name |-> name, value |-> value])

\* the outcome of a parse: the items, or raised
Loaded(items) == [raised |-> FALSE, items |-> items]
Raised == [raised |-> TRUE, items |-> << >>]

RECURSIVE JsonMembersFrom(_, _)
\* the members of a JSON object from a position on, up to its closing brace, after
\* which only whitespace may follow; scan is <<position, items read so far>>
JsonMembersFrom(s, scan) ==
  ByValue(LAMBDA m :
            IF m[1] = 0 THEN Raised
            ELSE IF CharAt(s, m[1]) = ","
            THEN ByValue(LAMBDA next : JsonMembersFrom(s, next), << m[1] + 1, m[2] >>)
            ELSE IF CharAt(s, m[1]) = "}" /\ SkipIn(s, m[1] + 1, Whitespace) = Len(s) + 1
            THEN Loaded(m[2])
            ELSE Raised,
          ByValue(LAMBDA str :
                    IF str.pos # 0
                    THEN << str.pos, DictSet(scan[2], str.groups[1], PyStr(str.groups[2])) >>
                    ELSE ByValue(LAMBDA int :
                                   IF int.pos # 0
                                   THEN << int.pos, DictSet(scan[2], int.groups[1],
                                                            [py |-> "int", text |-> int.groups[2]]) >>
                                   ELSE << 0, << >> >>,
                                 MatchAt(s, scan[1], integer_member)),
                  MatchAt(s, scan[1], string_member)))

\* json.loads(s) for an object whose values are strings without escapes and
\* unsigned integers: the dict, or raised (any other text raises here; the texts
\* below hold no nested value, no float and no negative number)
JsonLoadsObject(s) ==
  ByValue(LAMBDA open :
            IF CharAt(s, open) # "{" THEN Raised
            ELSE IF CharAt(s, SkipIn(s, open + 1, Whitespace)) = "}"
            THEN IF SkipIn(s, SkipIn(s, open + 1, Whitespace) + 1, Whitespace) = Len(s) + 1
                 THEN Loaded(<< >>) ELSE Raised
            ELSE JsonMembersFrom(s, << open + 1, << >> >>),
          SkipIn(s, 1, Whitespace))

\* the post-processing of one loaded value: a VARIABLE_ placeholder becomes a UUID
\* placeholder when the variable's name holds 'id' or 'uuid', a string otherwise
ProcessValue(value) ==
  IF value.py = "str" /\ StartsWithAt(value.text, 1, "VARIABLE_")
  THEN ByValue(LAMBDA var_name :
                 IF StrContains(var_name, "id") \/ StrContains(var_name, "uuid")
                 THEN PyStr("00000000-0000-0000-0000-000000000000")
                 ELSE PyStr("string_variable"),
               StrLower(StrReplace(value.text, "VARIABLE_", "")))
  ELSE value

\* r'(\w+):\s*([^,}]+)': the value is what follows the colon up to the next , or },
\* without its leading whitespace (the last whitespace character when it is nothing else)
fallback_pattern == << Group(Some(WordChars)), Lit(":"), Group(SomeNot(",}")) >>

FallbackValue(text) ==
  ByValue(LAMBDA start : IF start > Len(text) THEN SubSeq(text, Len(text), Len(text))
                         ELSE SubSeq(text, start, Len(text)),
          SkipIn(text, 1, Whitespace))

RECURSIVE DictOf(_, _)
\* {key: value.strip('\'"') for key, value in param_matches}
DictOf(param_matches, items) ==
  IF param_matches = << >> THEN items
  ELSE ByValue(LAMBDA next : DictOf(Tail(param_matches), next),
               DictSet(items, Head(param_matches)[1],
                       PyStr(StripQuotes(FallbackValue(Head(param_matches)[2])))))

\* what parse_rpc_parameters does with the argument object it matched
ParseParamsStr(params_str) ==
  ByValue(LAMBDA params :
            IF params.raised
            THEN ByValue(LAMBDA param_matches : DictOf(param_matches, << >>),
                         FindAll(params_str, fallback_pattern))
            ELSE [i \in 1..Len(params.items) |->
                    [name |-> params.items[i].name,
                     value |-> ProcessValue(params.items[i].value)]],
          ByValue(JsonLoadsObject,
                  ByValue(LAMBDA cleaned : Sub(variable_pattern, cleaned),
                          Sub(key_pattern, params_str))))

\* parse_rpc_parameters(content, function_name, line_number): the dict, as its items
\* in insertion order; line_number is not used
ParseRpcParameters(content, fname, line_number) ==
  ByValue(LAMBDA match : IF match.pos = 0 THEN << >> ELSE ParseParamsStr(match.groups[1]),
          Search(content, rpc_pattern(fname)))

-----------------------------------------------------------------------------
(* The RPC call sites of one file, validated in the order the parser lists them *)

\* the most call sites a file holds
MaxSites == 2

\* the lines that hold an RPC call, and the function each names
CallSites ==
  << [fname |-> "get_analytics",
      text |-> "await supabase.rpc('get_analytics', {user_id: 'not-a-uuid', range: '7d'})"],
     [fname |-> "get_analytics",
      text |-> "await supabase.rpc('get_analytics', {user_id: '123e4567-e89b-12d3-a456-426614174000', range: '12h'})"],
     [fname |-> "get_analytics",
      text |-> "await supabase.rpc(\"get_analytics\", {\"user_id\": userId, \"range\": \"30d\"})"],
     [fname |-> "get_analytics", text |-> "await supabase.rpc('get_analytics')"],
     [fname |-> "get_analytics", text |-> "await supabase.rpc('get_analytics', {})"],
     [fname |-> "get_analytics", text |-> "await supabase.rpc('get_analytics', {...args})"],
     [fname |-> "set_config",
      text |-> "await supabase.rpc('set_config', {id: 5, flag: true, cfg: cfg})"],
     [fname |-> "no_such_function",
      text |-> "await supabase.rpc('no_such_function', {id: 5})"] >>

\* the files: one call site per line
SiteFiles == UNION {[1..n -> 1..Len(CallSites)] : n \in 1..MaxSites}

\* what is read from the file's path
ContentOf(file) == StrJoin([k \in 1..Len(file) |-> CallSites[file[k]].text], "\n")

\* the catalog the orchestrator's RPC validator was built from
SiteSchema == Schema(Len(Functions))

\* the call the parser lists for line k of a file, with what parse_rpc_parameters
\* reads from a content for it
SiteCall(file, k, content) ==
  FunctionCall("rpc", "supabase", << "'" \o CallSites[file[k]].fname \o "'" >>,
               ParseRpcParameters(content, CallSites[file[k]].fname, k))

\* the detections the loop of _validate_supabase_usage appends for the call of line k,
\* parse_rpc_parameters reading a content
SiteDetections(file, k, content) ==
  ValidateSupabaseUsageDetections(
    AnalysisResult(<< >>, << >>, << >>, << SiteCall(file, k, content) >>, << >>),
    SiteSchema, FALSE)

\* a file with RPC call sites reaches _validate_supabase_usage
SiteInit ==
  /\ site \in [file : SiteFiles, next : {1}, detections : {<< >>}]

\* one turn of the loop of _validate_supabase_usage: the call of line site.next, for
\* which _validate_rpc_parameters reads the whole file again
ValidateSupabaseCall ==
  /\ site.next \in 1..Len(site.file)
  /\ site' = [site EXCEPT
                !.next = @ + 1,
                !.detections =
                  Append(@, ByValue(LAMBDA content : SiteDetections(site.file, site.next, content),
                                    ContentOf(site.file)))]
  /\ UNCHANGED nonSiteVars

SiteNext == ValidateSupabaseCall

vars == <<graphVars, rpcVars, valVars, envVars>>

Init == GraphInit /\ RpcOff /\ ValOff /\ EnvOff

Next == GraphNext

\* the graph builders at work
Spec == Init /\ [][Next]_vars

InitRpc == RpcInit /\ GraphOff /\ ValOff /\ EnvOff

NextRpc == RpcNext

\* the RPC validator at work
SpecRpc == InitRpc /\ [][NextRpc]_vars

InitValidate == ValInit /\ GraphOff /\ RpcOff /\ EnvOff
NextValidate == ValNext
SpecValidate == InitValidate /\ [][NextValidate]_vars

InitFaults == GraphInit /\ RpcOff /\ ValOff /\ EnvOff

InitSignature == SigInit /\ GraphOff /\ RpcOff /\ ValOff /\ fault = {} /\ SchemaOff
                 /\ entry = NoEntry /\ props = {} /\ site = SiteOff
NextSignature == SigNext
SpecSignature == InitSignature /\ [][NextSignature]_vars

InitSites == SiteInit /\ GraphOff /\ RpcOff /\ ValOff /\ fault = {} /\ SchemaOff
             /\ entry = NoEntry /\ props = {} /\ sigv = SigOff
NextSites == SiteNext
SpecSites == InitSites /\ [][NextSites]_vars

InitConcurrent == GraphInit /\ RpcOff /\ ValOff /\ EnvOff
NextConcurrent == ConcurrentNext
SpecConcurrent == InitConcurrent /\ [][NextConcurrent]_vars

InitEntry == GraphInit /\ RpcOff /\ ValOff /\ EnvOff
NextEntry == EntryNext
SpecEntry == InitEntry /\ [][NextEntry]_vars

InitSchema ==
  SchemaInit /\ GraphOff /\ RpcOff /\ ValOff /\ fault = {} /\ entry = NoEntry /\ props = {} /\ sigv = SigOff /\ site = SiteOff
NextSchema == SchemaNext
SpecSchema == InitSchema /\ [][NextSchema]_vars

NextFaults == FaultNext
SpecFaults == InitFaults /\ [][NextFaults]_vars

InitConfidence == ConfInit /\ GraphOff /\ RpcOff /\ EnvOff
NextConfidence == ConfNext
SpecConfidence == InitConfidence /\ [][NextConfidence]_vars

-----------------------------------------------------------------------------
(* Properties of the graph builders *)


\* the last (n) completed operations are the given kinds, all for one repository
LastOps(kinds) ==
  /\ run = Idle
  /\ Len(hist) >= Len(kinds)
  /\ \A i \in 1..Len(kinds) :
       /\ hist[Len(hist) - Len(kinds) + i].kind = kinds[i]
       /\ hist[Len(hist) - Len(kinds) + i].repo = hist[Len(hist)].repo

\* a store seen through labels and composite keys only
KeyedNodes(ns) == {<<n.label, n.key>> : n \in ns}
NodeOf(ns, id) == CHOOSE n \in ns : n.id = id
KeyedEdges(ns, es) ==
  {<<NodeOf(ns, e.src).label, NodeOf(ns, e.src).key, e.type,
     NodeOf(ns, e.dst).label, NodeOf(ns, e.dst).key>> : e \in es}

\* C1: CleanHierarchyParser.parse_repository run a second time for the same repository
\* over the same files adds no node and no edge: the store after run 2, by label and
\* composite key and by count, is the store after run 1.
C1_CleanReingestAddsNothing ==
  (builder = "clean" /\ LastOps(<<"ingest", "ingest">>)) =>
     /\ KeyedNodes(nodes) = KeyedNodes(snap.nodes)
     /\ KeyedEdges(nodes, edges) = KeyedEdges(snap.nodes, snap.edges)
     /\ Cardinality(nodes) = Cardinality(snap.nodes)
     /\ Cardinality(edges) = Cardinality(snap.edges)

\* C1 witness: a second run has completed on a store holding the repository's files
C1_Witness ==
  /\ builder = "clean"
  /\ LastOps(<<"ingest", "ingest">>)
  /\ \E r \in nodes : r.label = "Repository" /\ r.key = hist[Len(hist)].repo
  /\ Cardinality({f \in nodes : f.label = "File"}) >= 2

\* C2: DirectNeo4jExtractor._create_graph called twice in succession for the same
\* repository and module list leaves the node count and the edge count of the first call.
C2_DirectRecreateAddsNothing ==
  (builder = "direct" /\ LastOps(<<"ingest", "ingest">>)) =>
     /\ Cardinality(nodes) = Cardinality(snap.nodes)
     /\ Cardinality(edges) = Cardinality(snap.edges)

\* C3: after an ingest of a repository followed by its clear, the store holds no node
\* an ingest created for that repository, and the re-ingest that follows the clear
\* raises no uniqueness-constraint violation.
C3_ClearThenReingest ==
  /\ LastOps(<<"ingest", "clear">>) =>
       ~ \E n \in nodes : <<n.id, hist[Len(hist)].repo>> \in owner
  /\ LastOps(<<"ingest", "clear", "ingest">>) => hist[Len(hist)].viol = 0

\* the containment relationships of both builders
Containment == {"CONTAINS", "DEFINES", "HAS_METHOD", "HAS_ATTRIBUTE", "HAS_PROPS",
                "USES_HOOK", "USES"}

RECURSIVE ReachAny(_, _, _, _)
\* the nodes one or more containment relationships away
ReachAny(ns, es, from, fuel) ==
  LET next == {m \in ns : \E a \in from, t \in Containment :
                            [src |-> a.id, type |-> t, dst |-> m.id] \in es}
  IN  IF fuel = 0 \/ next = {} THEN {}
      ELSE next \cup ReachAny(ns, es, next, fuel - 1)

\* the stage of clearRepository a node kind belongs to
SpecStage(label) ==
  CASE label \in {"Method", "Attribute", "Hook", "Props", "Property", "State"} -> 1
    [] label \in {"Interface", "TypeDefinition"} -> 2
    [] label \in {"Function", "Component", "Class"} -> 3
    [] label = "File" -> 4
    [] OTHER -> 5

\* as SpecStage, but DirectNeo4jExtractor deletes hooks in the stage of components
CodeStage(b, label) == IF b = "direct" /\ label = "Hook" THEN 3 ELSE SpecStage(label)

\* a step of a clear that deletes nodes
Deletes == run.kind = "clear" /\ nodes' # nodes

\* every earlier stage has finished: no node of an earlier stage is still reachable
\* from the repository being cleared
StageFinished(Stage(_)) ==
  \A g \in nodes \ nodes' :
    \A n \in ReachAny(nodes, edges, Matching(nodes, "Repository", run.repo),
                      Cardinality(nodes)) :
      Stage(n.label) >= Stage(g.label)

\* nothing is reachable from a node at the moment it is deleted
ChildrenGone ==
  \A g \in nodes \ nodes' : ReachAny(nodes, edges, {g}, Cardinality(nodes)) = {}

\* C4 as claimed: the clear deletes leaf entities (methods, attributes, hooks, props),
\* then interfaces/types, then functions/components/classes, then files, then the
\* repository, each stage finishing before the next starts, so nothing is reachable
\* from a node when it is deleted.
C4_StrictStageOrder ==
  [][Deletes => (StageFinished(SpecStage) /\ ChildrenGone)]_vars

\* C4 as amended: the same order, except that DirectNeo4jExtractor deletes hooks after
\* components (with functions and classes); nothing is reachable from a node when it is
\* deleted.
C4_CodeStageOrder ==
  [][Deletes => (StageFinished(LAMBDA l : CodeStage(builder, l)) /\ ChildrenGone)]_vars

\* C4 witness: a clear has deleted methods, hooks, components, classes, files and the
\* repository node
C4_Witness ==
  /\ run = Idle
  /\ Len(hist) >= 1
  /\ hist[Len(hist)].kind = "clear"
  /\ {"Method", "Hook", "Component", "Class", "File", "Repository"}
       \subseteq {n.label : n \in deleted}

\* C5: the composite key computed for one logical entity is the same string in every
\* ingestion run, whichever process performs the run.
C5_KeysDeterministic ==
  \A a \in keylog : \A b \in keylog :
    (a.ent = b.ent /\ a.label = b.label) => a.key = b.key

\* C6: within one node kind two different logical entities never receive the same
\* composite key.
C6_KeysInjective ==
  \A a \in keylog : \A b \in keylog :
    (a.label = b.label /\ a.key = b.key) => a.ent = b.ent

-----------------------------------------------------------------------------
(* Properties of the RPC parameter validator *)

\* the call has been validated against a catalog that lists / does not list the function
ValidatedKnown ==
  /\ pc = "done"
  /\ \E i \in 1..Len(supabase_schema.functions) :
       supabase_schema.functions[i].name = function_name

ValidatedUnknown ==
  /\ pc = "done"
  /\ \A i \in 1..Len(supabase_schema.functions) :
       supabase_schema.functions[i].name # function_name

\* the catalog's declaration of the function called
Declared ==
  LET fs == supabase_schema.functions
  IN  fs[CHOOSE i \in 1..Len(fs) : fs[i].name = function_name].parameters

\* r: the declared parameters of mode IN without a default; t: the declared parameters
DeclaredRequired ==
  Cardinality({i \in 1..Len(Declared) : Declared[i].mode = "IN" /\ Declared[i].default = ""})
DeclaredTotal == Len(Declared)

\* the issues of one kind among those returned
IssuesOf(kind) == {i \in 1..Len(errors) : errors[i].validation_type = kind}

\* C7: for a catalog function with r required and t declared parameters, a call with
\* p parameters gets a parameter-count-mismatch issue if and only if p < r or p > t,
\* whichever names are supplied.
C7_CountMismatchIff ==
  ValidatedKnown =>
    (IssuesOf("PARAMETER_COUNT_MISMATCH") # {}
       <=> (Len(provided_params) < DeclaredRequired \/ Len(provided_params) > DeclaredTotal))

\* C7 witness: a call with t + 3 parameters to a function with optional parameters
\* got a count-mismatch issue
C7_Witness ==
  /\ ValidatedKnown
  /\ DeclaredRequired < DeclaredTotal
  /\ Len(provided_params) = DeclaredTotal + 3
  /\ IssuesOf("PARAMETER_COUNT_MISMATCH") # {}

\* the kinds of issue the five parameter checks report
CheckKinds == {"PARAMETER_COUNT_MISMATCH", "MISSING_REQUIRED", "TYPE_MISMATCH",
               "INVALID_ENUM", "INVALID_JSON_STRUCTURE"}

\* C8: a call to a function name absent from the catalog gets exactly one issue, of a
\* kind of its own (unknown function, none of the kinds the parameter checks report),
\* naming at most 3 known functions, and none of the five parameter checks runs,
\* however many parameters are supplied.
C8_UnknownFunctionSingleIssue ==
  ValidatedUnknown =>
    /\ Len(errors) = 1
    /\ errors[1].validation_type \notin CheckKinds
    /\ Cardinality(errors[1].named) <= 3
    /\ errors[1].named \subseteq
         {supabase_schema.functions[i].name : i \in 1..Len(supabase_schema.functions)}
    /\ checks = << >>

ValidUserId == PyStr("123e4567-e89b-12d3-a456-426614174000")

\* C9: for get_analytics(user_id uuid required, range enum{7d,30d,90d,1y} required),
\* a call with only a valid user_id gets exactly one missing-required issue (for range),
\* exactly one count-mismatch issue and nothing else; a call with a valid user_id and
\* range = "12h" gets exactly one invalid-enum issue and no count-mismatch or
\* missing-required issue.
C9_MissingAndEnumScenarios ==
  (ValidatedKnown /\ function_name = "get_analytics") =>
    /\ provided_params = << [name |-> "user_id", value |-> ValidUserId] >> =>
         /\ Cardinality(IssuesOf("MISSING_REQUIRED")) = 1
         /\ \A i \in IssuesOf("MISSING_REQUIRED") : errors[i].parameter_name = "range"
         /\ Cardinality(IssuesOf("PARAMETER_COUNT_MISMATCH")) = 1
         /\ Len(errors) = 2
    /\ provided_params = << [name |-> "user_id", value |-> ValidUserId],
                            [name |-> "range", value |-> PyStr("12h")] >> =>
         /\ Cardinality(IssuesOf("INVALID_ENUM")) = 1
         /\ IssuesOf("PARAMETER_COUNT_MISMATCH") = {}
         /\ IssuesOf("MISSING_REQUIRED") = {}

\* C9 witness: the call with range = "12h" has been validated and got an invalid-enum
\* issue for range
C9_Witness ==
  /\ ValidatedKnown
  /\ function_name = "get_analytics"
  /\ provided_params = << [name |-> "user_id", value |-> ValidUserId],
                          [name |-> "range", value |-> PyStr("12h")] >>
  /\ \E i \in IssuesOf("INVALID_ENUM") : errors[i].parameter_name = "range"

\* the values that conform to a declared PostgreSQL type
Conforming(pg_type) ==
  CASE pg_type = "uuid" -> {ValidUserId}
    [] pg_type = "range_type" -> {PyStr("7d"), PyStr("30d"), PyStr("90d"), PyStr("1y")}
    [] pg_type = "boolean" -> {PyBool(TRUE), PyBool(FALSE)}
    [] pg_type = "bigint" -> {v \in Values : v.py = "int"}
    [] pg_type = "json" -> {PyDict}
    [] pg_type = "timestamp" -> {PyStr("2024-01-01T00:00:00Z")}
    [] OTHER -> {v \in Values : v.py = "str"}

\* every declared parameter is supplied, nothing else is, every value conforms
AllConforming ==
  /\ ProvidedNames(provided_params) = ExpectedNames(Declared)
  /\ \A i \in 1..Len(provided_params) : \A j \in 1..Len(Declared) :
       provided_params[i].name = Declared[j].name =>
         provided_params[i].value \in Conforming(Declared[j].type)

\* C10: a call to a known function that supplies every declared parameter by name, no
\* undeclared name, and for each a value conforming to its declared type (well-formed
\* UUID string, enum member, boolean literal, integer, JSON object) gets no issue.
C10_ConformingCallNoIssue ==
  (ValidatedKnown /\ AllConforming) => errors = << >>

\* C10 witness: a conforming call with a uuid and an enum parameter has been validated
C10_Witness ==
  /\ ValidatedKnown
  /\ AllConforming
  /\ \E j \in 1..Len(Declared) : Declared[j].type = "uuid"
  /\ \E j \in 1..Len(Declared) : Declared[j].type = "range_type"
  /\ errors = << >>

-----------------------------------------------------------------------------
(* Properties of ComprehensiveValidator *)

\* C11: appending a detection to a report never increases the overall confidence
\* computed for it, and a report with zero detections has overall confidence 1.0.
C11_AppendNeverIncreases ==
  /\ [](report.detections = << >> => FracEq(report.overall_confidence, Frac(1, 1)))
  /\ [][Len(report'.detections) = Len(report.detections) + 1 =>
          FracLeq(report'.overall_confidence, report.overall_confidence)]_vars

\* validate_script has returned its report
Returned == vpc = "returned"

\* the detections of the report that describe a failure of the validation
FailureDetections == {i \in 1..Len(report.detections) : report.detections[i] = CriticalDetection}

\* C12: every report validate_script returns, whether the pipeline completed, the
\* file could not be parsed or a stage raised, has overall_confidence equal to
\* max(0, 1 - sum(weight x confidence) / (2 x number of detections)), and 1.0 when
\* it has no detection.
C12_ReturnedConfidenceIsFormula ==
  Returned =>
    FracEq(report.overall_confidence, CalculateOverallConfidence(report.detections))

\* analyze_typescript_file has returned
Analysed == vpc \notin {"off", "scored", "analysis"}

\* an exception was raised somewhere in the pipeline of the script: in the base
\* analysis, in a step, or in a validator that catches its own exceptions
ExceptionRaised ==
  \/ Analysed /\ (analysis.is_none \/ analysis.errors # << >>)
  \/ \E i \in 1..Len(ran) : StepRaises(ran[i])
  \/ swallowed # << >>

\* C13: validate_script never raises; when an exception was raised anywhere in the
\* per-file pipeline, the returned report contains exactly one CRITICAL detection
\* describing the failure.
C13_ExceptionGivesOneCritical ==
  /\ vpc \in {"analysis", "react", "neo4j", "supabase", "signatures", "patterns",
              "bad_practices", "confidence", "recommendations", "statistics",
              "except", "returned"}
  /\ (Returned /\ ExceptionRaised) => Cardinality(FailureDetections) = 1

\* the steps of validate_script after a step, for the script validated
StepsAfter(step) ==
  LET at == IF step = "rpc" THEN 4 ELSE CHOOSE i \in 1..Len(Steps) : Steps[i] = step
  IN  {Steps[i] : i \in (at + 1)..Len(Steps)} \ (IF script.ts_validator THEN {} ELSE {"neo4j"})

\* C14: an exception raised inside an individual validator (RPC-parameter
\* validation, signature validator, pattern detector, graph-based validator) gives
\* a single CRITICAL detection in the returned report, and the validators after it
\* still run for the file.
C14_ValidatorFailureReported ==
  (Returned /\ swallowed # << >>) =>
     /\ Cardinality(FailureDetections) = 1
     /\ \A i \in 1..Len(swallowed) : StepsAfter(swallowed[i]) \subseteq SeqToSet(ran)

\* the script is not valid TypeScript/JavaScript, or the parser subprocess timed
\* out or exited non-zero on it
ParseFails == script.content = "invalid" \/ script.parser \in {"timeout", "nonzero_exit"}

\* C15: analyze_typescript_file, given a syntactically invalid file or a parser that
\* times out or exits non-zero, never raises and returns an analysis object rather
\* than no result.
C15_ParseFailureStillAnalysed ==
  (Analysed /\ ParseFails) => ~analysis.is_none

-----------------------------------------------------------------------------
(* Properties of ingest under failures *)

\* the key of the File node of the i-th file of a repository
FileKey(b, repo, i) ==
  IF b = "clean" THEN CleanFileId(repo, RepoFiles(repo)[i])
  ELSE ModulesData(repo)[i].file_path

\* the last operation started was an ingest, and it has ended
IngestEnded ==
  /\ run = Idle
  /\ hist # << >>
  /\ hist[Len(hist)].kind = "ingest"

\* C16: during ingest a failure while writing one file's entities is caught and the
\* file skipped, and every file after it is still ingested (its File node is in the
\* store when the run ends); a failure while declaring a schema constraint or while
\* creating the Repository node reaches the caller: no later statement of the
\* operation runs, and a run whose Repository statement failed has written nothing.
C16_FileFailureSkipsOnlyTheFile ==
  /\ (IngestEnded /\ <<ops, "repository">> \notin fault) =>
        \A i \in 1..Len(RepoFiles(hist[Len(hist)].repo)) :
           \/ <<ops, ToString(i)>> \in fault
           \/ Matching(nodes, "File", FileKey(builder, hist[Len(hist)].repo, i)) # {}
  /\ (<<ops, "repository">> \in fault \/ <<ops, "constraint">> \in fault) =>
        /\ todo = << >>
        /\ nodes = snap.nodes
        /\ edges = snap.edges

\* C16 witness: a run in which the first file failed and a later file was ingested by
\* that same run, after an operation that a failure of the Repository statement ended
C16_Witness ==
  /\ IngestEnded
  /\ <<ops, "1">> \in fault
  /\ <<ops, "2">> \notin fault
  /\ \E n \in Matching(nodes, "File", FileKey(builder, hist[Len(hist)].repo, 2)) :
        n \notin snap.nodes
  /\ \E k \in 1..(ops - 1) : <<k, "repository">> \in fault

-----------------------------------------------------------------------------
(* Properties of SupabaseAnalyzer.analyze_schema *)

\* analyze_schema has returned the catalog
CatalogReturned == apc = "returned"

\* the facet is empty when its sub-query fails and holds every row when it succeeds
FacetOk(kind, facet, rows) ==
  IF kind \in database.failing THEN facet = << >> ELSE facet = rows

\* the facets read once per catalog, and the parameters read once per function
TopFacetsOk ==
  /\ FacetOk("views", schema_info.views, DbViews)
  /\ FacetOk("enums", schema_info.enums, Enums)
  /\ FacetOk("extensions", schema_info.extensions, DbExtensions)
  /\ FacetOk("schemas", schema_info.schemas, DbSchemas)
  /\ IF "functions" \in database.failing THEN schema_info.functions = << >>
     ELSE /\ Len(schema_info.functions) = Len(Functions)
          /\ \A i \in 1..Len(Functions) :
               /\ schema_info.functions[i].name = Functions[i].name
               /\ FacetOk("parameters", schema_info.functions[i].parameters,
                          Functions[i].parameters)

\* the tables facet when the tables query fails: the conventional names a probe
\* reaches, in the order probed, existence only
TablesProbed ==
  /\ \A i \in 1..Len(schema_info.tables) :
       schema_info.tables[i] = TableInfo(schema_info.tables[i].name, "public")
  /\ [i \in 1..Len(schema_info.tables) |-> schema_info.tables[i].name]
       = SelectSeq(common_tables, LAMBDA t : t \in database.probes)

\* the facets read once per table, policies apart
TableFacetsOk ==
  /\ Len(schema_info.tables) = Len(DbTables)
  /\ \A i \in 1..Len(DbTables) :
       LET t == schema_info.tables[i]
       IN  /\ t.name = DbTables[i].name
           /\ FacetOk("columns", t.columns, DbColumns(t.name))
           /\ FacetOk("primary_keys", t.primary_keys, DbPrimaryKeys(t.name))
           /\ FacetOk("foreign_keys", t.foreign_keys, DbForeignKeys(t.name))
           /\ FacetOk("indexes", t.indexes, DbIndexes(t.name))

\* C17: analyze_schema on a connected client returns a catalog for every combination
\* of failing sub-queries: each facet whose sub-query fails (functions, views, enums,
\* extensions, schemas, per-table columns, keys, indexes, policies) is empty, each
\* facet whose sub-query succeeds keeps all its rows; when the tables query itself
\* fails the tables facet is what probing the fixed table names gives.
C17_FacetsIndependent ==
  CatalogReturned =>
    /\ TopFacetsOk
    /\ IF "tables" \in database.failing THEN TablesProbed
       ELSE /\ TableFacetsOk
            /\ \A i \in 1..Len(schema_info.tables) :
                 FacetOk("policies", schema_info.tables[i].policies,
                         DbPolicies(schema_info.tables[i].name))

\* C17 as the code has it: as above, except that the policies of a table are read
\* only when its row-security check succeeded and found row security enabled; they
\* are empty otherwise, whether or not the policies sub-query would succeed.
C17_FacetsIndependentButPolicies ==
  CatalogReturned =>
    /\ TopFacetsOk
    /\ IF "tables" \in database.failing THEN TablesProbed
       ELSE /\ TableFacetsOk
            /\ \A i \in 1..Len(schema_info.tables) :
                 LET t == schema_info.tables[i]
                 IN  IF "rls" \notin database.failing /\ DbRowSecurity(t.name)
                     THEN FacetOk("policies", t.policies, DbPolicies(t.name))
                     ELSE t.policies = << >>

\* C17 witness: a catalog returned with the columns sub-query failing and the indexes
\* sub-query succeeding, a table whose policies were read and one whose policies
\* were not
C17_Witness ==
  /\ CatalogReturned
  /\ "tables" \notin database.failing
  /\ "columns" \in database.failing
  /\ \E i \in 1..Len(schema_info.tables) :
       schema_info.tables[i].columns = << >> /\ schema_info.tables[i].indexes # << >>
  /\ \E i \in 1..Len(schema_info.tables) : schema_info.tables[i].policies # << >>
  /\ \E i \in 1..Len(schema_info.tables) : schema_info.tables[i].policies = << >>


-----------------------------------------------------------------------------
(* Entry points: the clear comes before the writes *)

\* the entry point has made its first graph writes for the name it ingests under
Wrote(i) == entry.calls[i][1] = "write"

\* C18: in every entry point, whenever the ingestion of a repository name has written
\* to the graph, the clear of that same name was called, and had returned, earlier in
\* the same invocation; also when the name was derived from the URL
C18_ClearBeforeFirstWrite ==
  \A i \in 1..Len(entry.calls) :
    Wrote(i) => \E j \in 1..(i - 1) : entry.calls[j] = <<"clear", entry.calls[i][2]>>


-----------------------------------------------------------------------------
(* Two files at the same time *)

\* the store after the two files were ingested one after the other, in the given order
Sequential(order) ==
  LET groups == FileGroups(builder, run.repo)
  IN  RunGroups(builder, << groups[order[1]], groups[order[2]] >>,
                Store(snap.nodes, snap.edges, snap.nextId, snap.props, FALSE))

\* the concurrent ingestion of the two files has ended
ConcurrentEnded == run.kind = "ingested"

\* the nodes by label and key, each with the property values it was created with
NodesWithValues(ns, pr) ==
  UNION {{<<n.label, n.key, p[2]>> : p \in {q \in pr : q[1] = n.id}} : n \in ns}

\* the store holds what the sequential ingestion in that order leaves
SameAsSequential(order) ==
  LET seq == Sequential(order)
  IN  /\ NodesWithValues(nodes, props) = NodesWithValues(seq.nodes, seq.props)
      /\ KeyedNodes(nodes) = KeyedNodes(seq.nodes)
      /\ KeyedEdges(nodes, edges) = KeyedEdges(seq.nodes, seq.edges)

\* the same, looking at labels, keys and relationships only
SameKeysAsSequential(order) ==
  LET seq == Sequential(order)
  IN  /\ KeyedNodes(nodes) = KeyedNodes(seq.nodes)
      /\ KeyedEdges(nodes, edges) = KeyedEdges(seq.nodes, seq.edges)

\* C19: however the statements of two files of a repository interleave, the ingestion
\* ends with the nodes and edges a sequential ingestion of the two files leaves, with
\* no two nodes of the same label and key, and no statement met a uniqueness violation
C19_ConcurrentFilesSafe ==
  ConcurrentEnded =>
    /\ SameAsSequential(<<1, 2>>) \/ SameAsSequential(<<2, 1>>)
    /\ Cardinality(nodes) = Cardinality(KeyedNodes(nodes))
    /\ viol = 0

\* the result is that of the files ingested in the order the code walks them
SameAsCodeOrder ==
  ConcurrentEnded => SameAsSequential(<<1, 2>>)

\* two files none of whose entities share a key (repository A) commute
NoSharedKeySafe ==
  (ConcurrentEnded /\ run.repo = "A") =>
    /\ SameAsSequential(<<1, 2>>)
    /\ Cardinality(nodes) = Cardinality(KeyedNodes(nodes))
    /\ viol = 0


-----------------------------------------------------------------------------
(* What an ingest leaves in the graph *)

\* the nodes of a label, with a key ending in the entity's name, that a typed
\* relationship attaches to one of the parents
Attached(parents, etypes, label, name) ==
  {n \in nodes : /\ n.label = label
                 /\ EndsWith(n.key, name)
                 /\ \E a \in parents, t \in etypes :
                      [src |-> a.id, type |-> t, dst |-> n.id] \in edges}

Elems(seq) == {seq[i] : i \in 1..Len(seq)}

\* the first ingest of a run, on the empty store, has ended
FirstIngestEnded == IngestEnded /\ Len(hist) = 1

\* every entity of the file has its node under the file's node
FileEntitiesPresent(fileNodes, file) ==
  /\ \A c \in Elems(file.classes) :
       LET cls == Attached(fileNodes, {"DEFINES"}, "Class", c.name)
       IN  /\ cls # {}
           /\ \A m \in Elems(c.methods) : Attached(cls, {"HAS_METHOD"}, "Method", m) # {}
           /\ \A a \in Elems(c.attributes) :
                Attached(cls, {"HAS_ATTRIBUTE"}, "Attribute", a) # {}
  /\ \A f \in Elems(file.functions) : Attached(fileNodes, {"DEFINES"}, "Function", f) # {}
  /\ \A c \in Elems(file.components) :
       LET comp == Attached(fileNodes, {"DEFINES"}, "Component", c.name)
       IN  /\ comp # {}
           /\ c.props # << >> => Attached(comp, {"HAS_PROPS"}, "Props", "") # {}
           /\ \A h \in Elems(c.hooks) :
                \E n \in Attached(comp \cup fileNodes, {"USES_HOOK", "USES"}, "Hook", "") :
                  StrContains(n.key, h)

\* C20: after an ingest has completed, the graph holds one Repository node, one File
\* node per module attached to it by CONTAINS, and under it a node for every entity the
\* module analysis records (classes with methods and attributes, functions, components
\* with props and hooks), each attached to its parent by its typed relationship
C20_IngestCreatesEveryEntity ==
  FirstIngestEnded =>
    LET repo == hist[1].repo
        repoNodes == Matching(nodes, "Repository", repo)
    IN  /\ Cardinality(repoNodes) = 1
        /\ \A i \in 1..Len(RepoFiles(repo)) :
             LET fileNodes == Attached(repoNodes, {"CONTAINS"}, "File",
                                       RelativePath(RepoFiles(repo)[i]))
             IN  /\ Cardinality(fileNodes) = 1
                 /\ FileEntitiesPresent(fileNodes, RepoFiles(repo)[i])

\* the Repository node and the File nodes are there
RepositoryAndFilesPresent ==
  FirstIngestEnded =>
    LET repo == hist[1].repo
        repoNodes == Matching(nodes, "Repository", repo)
    IN  /\ Cardinality(repoNodes) = 1
        /\ \A i \in 1..Len(RepoFiles(repo)) :
             Cardinality(Attached(repoNodes, {"CONTAINS"}, "File",
                                  RelativePath(RepoFiles(repo)[i]))) = 1

\* what DirectNeo4jExtractor leaves: everything but the Props node of a component
DirectAllButProps ==
  (FirstIngestEnded /\ builder = "direct") =>
    LET repo == hist[1].repo
        repoNodes == Matching(nodes, "Repository", repo)
    IN  \A i \in 1..Len(RepoFiles(repo)) :
          LET file == RepoFiles(repo)[i]
              fileNodes == Attached(repoNodes, {"CONTAINS"}, "File", RelativePath(file))
          IN  FileEntitiesPresent(fileNodes, [file EXCEPT !.components = << >>])
              /\ \A c \in Elems(file.components) :
                   Attached(fileNodes, {"DEFINES"}, "Component", c.name) # {}


-----------------------------------------------------------------------------
(* RPCParameterValidator: the type checks *)

\* the type-mismatch issues returned for a parameter
MismatchesFor(name) ==
  {i \in IssuesOf("TYPE_MISMATCH") : errors[i].parameter_name = name}

\* the declared PostgreSQL type of a supplied parameter
DeclaredType(name) ==
  Declared[CHOOSE j \in 1..Len(Declared) : Declared[j].name = name].type

\* the supplied parameters declared with one of the types
SuppliedOfType(types) ==
  {i \in 1..Len(provided_params) :
     /\ provided_params[i].name \in ExpectedNames(Declared)
     /\ DeclaredType(provided_params[i].name) \in types}

\* an integer literal, or a string that parses as an integer
IntegerOrIntegerString(v) == v.py = "int" \/ (v.py = "str" /\ IntParses(v.text))

\* a boolean literal, or one of the strings "true", "false", "0", "1"
BooleanOrBooleanString(v) ==
  v.py = "bool" \/ (v.py = "str" /\ v.text \in {"true", "false", "0", "1"})

\* C21: a value supplied for an integer parameter passes the type check iff it is an
\* integer literal or a string parseable as an integer; one supplied for a boolean
\* parameter passes iff it is a boolean literal or one of "true", "false", "0", "1";
\* a value that fails the check of its declared type gets exactly one type-mismatch issue
C21_TypeConformance ==
  ValidatedKnown =>
    /\ \A i \in SuppliedOfType({"bigint", "integer", "int"}) :
         /\ MismatchesFor(provided_params[i].name) = {}
              <=> IntegerOrIntegerString(provided_params[i].value)
         /\ Cardinality(MismatchesFor(provided_params[i].name)) <= 1
    /\ \A i \in SuppliedOfType({"boolean", "bool"}) :
         /\ MismatchesFor(provided_params[i].name) = {}
              <=> BooleanOrBooleanString(provided_params[i].value)
         /\ Cardinality(MismatchesFor(provided_params[i].name)) <= 1


\* the JSON-structure issues returned for a parameter
JsonIssuesFor(name) ==
  {i \in IssuesOf("INVALID_JSON_STRUCTURE") : errors[i].parameter_name = name}

\* an object, an array, or a string that JSON-decodes
ObjectArrayOrJsonString(v) ==
  v.py \in {"dict", "list"} \/ (v.py = "str" /\ JsonLoads(v.text))

\* C22: a value supplied for a parameter declared json / jsonb gets no JSON-structure
\* issue when it is an object, an array or a string that JSON-decodes, and gets a
\* JSON-structure issue when it is none of these
C22_JsonStructure ==
  ValidatedKnown =>
    \A i \in SuppliedOfType({"json", "jsonb"}) :
      JsonIssuesFor(provided_params[i].name) = {}
        <=> ObjectArrayOrJsonString(provided_params[i].value)

\* the half of it that holds: a value that is none of these gets an issue, an object none
JsonStructureObjectsOnly ==
  ValidatedKnown =>
    \A i \in SuppliedOfType({"json", "jsonb"}) :
      /\ ~ ObjectArrayOrJsonString(provided_params[i].value)
           => JsonIssuesFor(provided_params[i].name) # {}
      /\ provided_params[i].value.py = "dict" => JsonIssuesFor(provided_params[i].name) = {}


-----------------------------------------------------------------------------
(* SignatureValidator *)

\* a file has been validated; the file, and the issues returned for it
SigValidated == sigv.returned # << >>
LastFile == SigFiles[sigv.returned[Len(sigv.returned)].file]
LastIssues == sigv.returned[Len(sigv.returned)].value

\* the issues of a type about a name at a line
ArityIssues(type, call) ==
  {i \in 1..Len(LastIssues) : /\ LastIssues[i].type = type
                              /\ LastIssues[i].name = call.function
                              /\ LastIssues[i].line = call.line}

DeclarationOf(file, name) == CHOOSE d \in file.declares : d.name = name

\* C23: for each call of a function the file declares with q required and m declared
\* parameters, a missing-arguments issue is reported iff the call has fewer than q
\* arguments, and a too-many-arguments issue iff the declaration has no rest parameter
\* and the call has more than m arguments
C23_ArityIssuesIff ==
  SigValidated =>
    \A call \in LastFile.calls :
      LET d == DeclarationOf(LastFile, call.function)
      IN  /\ ArityIssues("MISSING_ARGUMENTS", call) # {} <=> call.arguments < d.required
          /\ ArityIssues("TOO_MANY_ARGUMENTS", call) # {}
               <=> (~ d.has_rest /\ call.arguments > d.declared)

\* the same for calls whose arguments hold no parenthesis, of functions whose
\* parameters with a default value carry a type annotation
ArityIssuesIffSimple ==
  (SigValidated /\ LastFile.path \in {"math.ts", "rest.ts"}) =>
    \A call \in LastFile.calls :
      LET d == DeclarationOf(LastFile, call.function)
      IN  /\ ArityIssues("MISSING_ARGUMENTS", call) # {} <=> call.arguments < d.required
          /\ ArityIssues("TOO_MANY_ARGUMENTS", call) # {}
               <=> (~ d.has_rest /\ call.arguments > d.declared)


\* the unused-definition issues of the last validation about a name
UnusedIssues(name) ==
  {i \in 1..Len(LastIssues) : /\ LastIssues[i].type \in {"UNUSED_TYPE", "UNUSED_FUNCTION"}
                              /\ LastIssues[i].name = name}

\* C24: a function or type declared in the file and referenced nowhere else in it gets
\* exactly one unused-definition issue, of LOW severity; one referenced elsewhere in
\* the file gets none
C24_UnusedDefinitions ==
  SigValidated =>
    /\ \A n \in LastFile.unreferenced :
         /\ Cardinality(UnusedIssues(n)) = 1
         /\ \A i \in UnusedIssues(n) : LastIssues[i].severity = "LOW"
    /\ \A n \in LastFile.referenced : UnusedIssues(n) = {}

\* the same for the types of a file whose references are plain annotations
UnusedTypesPlain ==
  (SigValidated /\ LastFile.path = "types.ts") =>
    /\ \A n \in LastFile.unreferenced :
         /\ Cardinality(UnusedIssues(n)) = 1
         /\ \A i \in UnusedIssues(n) : LastIssues[i].severity = "LOW"
    /\ \A n \in LastFile.referenced : UnusedIssues(n) = {}


\* what the list returned by call k holds now
HeldNow(k) == sigv.heap[sigv.returned[k].ref]

\* C29: the list returned for a file holds only the issues of that file, and keeps
\* exactly those contents while the same instance validates other files
C29_ReturnedListsKept ==
  \A k \in 1..Len(sigv.returned) :
    /\ sigv.returned[k].value = SigResults[sigv.returned[k].file]
    /\ HeldNow(k) = sigv.returned[k].value

\* every list returned holds the issues of the file validated last
ReturnedListsHoldLast ==
  \A k \in 1..Len(sigv.returned) :
    /\ sigv.returned[k].value = SigResults[sigv.returned[k].file]
    /\ HeldNow(k) = LastIssues


\* the call validated is of a function the validator's catalog knows
KnownCallValidated == pc = "done" /\ function_name \in DOMAIN BuildFunctionCache(supabase_schema)

\* the names the count issues of the result list as extra or missing
CountIssueNames ==
  UNION {errors[i].named : i \in {j \in 1..Len(errors) :
                                    errors[j].validation_type = "PARAMETER_COUNT_MISMATCH"}}

\* C27: every provided parameter the matched function does not declare is listed by a
\* parameter-count issue of the result, however many parameters are provided
C27_ExtrasReported ==
  KnownCallValidated =>
    \A name \in ProvidedNames(provided_params) \
                ExpectedNames(BuildFunctionCache(supabase_schema)[function_name]) :
      name \in CountIssueNames

\* the same when more parameters are provided than the function declares
ExtrasReportedWhenTooMany ==
  (KnownCallValidated
   /\ Len(provided_params) > Len(BuildFunctionCache(supabase_schema)[function_name])) =>
    \A name \in ProvidedNames(provided_params) \
                ExpectedNames(BuildFunctionCache(supabase_schema)[function_name]) :
      name \in CountIssueNames


\* the call of line k names a function of the catalog
KnownSite(k) ==
  CallSites[site.file[k]].fname \in {Functions[i].name : i \in 1..Len(Functions)}

\* the required parameters of the function the call of line k names
RequiredOfSite(k) ==
  LET expected == BuildFunctionCache(SiteSchema)[CallSites[site.file[k]].fname]
  IN  {i \in 1..Len(expected) : expected[i].is_required}

\* the detections of a type among those of the call of line k
SiteDetectionsOfType(k, type) ==
  {i \in 1..Len(site.detections[k]) : site.detections[k][i].type = type}

\* what parse_rpc_parameters returned for the call of line k
ExtractedAt(k) ==
  ParseRpcParameters(ContentOf(site.file), CallSites[site.file[k]].fname, k)

\* C25: when the extraction for a call of a catalog function gives the empty
\* parameter set, the report holds one missing-required-parameter detection for each
\* required parameter of the function
C25_EmptyExtractionReportsMissing ==
  \A k \in 1..Len(site.detections) :
    (KnownSite(k) /\ ExtractedAt(k) = << >>) =>
      Cardinality(SiteDetectionsOfType(k, "RPC_MISSING_REQUIRED_PARAM"))
        = Cardinality(RequiredOfSite(k))

\* when the extraction for a call gives the empty parameter set, the call gets no
\* detection at all
EmptyExtractionReportsNothing ==
  \A k \in 1..Len(site.detections) :
    (KnownSite(k) /\ ExtractedAt(k) = << >>) => site.detections[k] = << >>

\* C26: the detections of each call site of a catalog function are those of the
\* argument object written at that call site
C26_OwnArguments ==
  \A k \in 1..Len(site.detections) :
    KnownSite(k) =>
      site.detections[k]
        = SiteDetections(site.file, k, CallSites[site.file[k]].text)

\* the line of the first call site of the file that names the function of line k
\* and passes an argument object
FirstWithObject(k) ==
  LET same == {j \in 1..Len(site.file) :
                 /\ CallSites[site.file[j]].fname = CallSites[site.file[k]].fname
                 /\ Search(CallSites[site.file[j]].text,
                           rpc_pattern(CallSites[site.file[j]].fname)).pos # 0}
  IN  IF same = {} THEN k ELSE CHOOSE j \in same : \A i \in same : j <= i

\* the detections of each call site are those of the first argument object the file
\* passes to the function it names
FirstArgumentsForAll ==
  \A k \in 1..Len(site.detections) :
    KnownSite(k) =>
      site.detections[k]
        = SiteDetections(site.file, FirstWithObject(k),
                         CallSites[site.file[FirstWithObject(k)]].text)


\* the subgraph of a repository in a store: its Repository node, what is reachable from
\* it through containment relationships, and the relationships among these nodes
RepositorySubgraph(ns, es, repo) ==
  LET roots == Matching(ns, "Repository", repo)
      sub == roots \cup ReachAny(ns, es, roots, Cardinality(ns))
  IN  [nodes |-> sub,
       edges |-> {e \in es : \E a \in sub, b \in sub : e.src = a.id /\ e.dst = b.id}]

\* ingest(a), ingest(b), clear(a) have run, in this order, on an empty store
IngestedBothClearedFirst(a, b) ==
  /\ a # b
  /\ run = Idle
  /\ Len(hist) = 3
  /\ hist[1].kind = "ingest" /\ hist[1].repo = a
  /\ hist[2].kind = "ingest" /\ hist[2].repo = b
  /\ hist[3].kind = "clear" /\ hist[3].repo = a

\* C28: after ingest(a), ingest(b), clear(a) the subgraph of b is what it was when the
\* clear started
C28_ClearLeavesOtherRepository ==
  \A a \in Repos, b \in Repos :
    IngestedBothClearedFirst(a, b) =>
      RepositorySubgraph(nodes, edges, b) = RepositorySubgraph(snap.nodes, snap.edges, b)

\* the same for CleanHierarchyParser alone
CleanClearLeavesOtherRepository ==
  \A a \in Repos, b \in Repos :
    (builder = "clean" /\ IngestedBothClearedFirst(a, b)) =>
      RepositorySubgraph(nodes, edges, b) = RepositorySubgraph(snap.nodes, snap.edges, b)

\* for either builder, the nodes an ingest created for b, and the relationships among
\* them, are left alone
ClearLeavesCreatedForOther ==
  \A a \in Repos, b \in Repos :
    IngestedBothClearedFirst(a, b) =>
      LET created == {n \in snap.nodes : <<n.id, b>> \in owner}
      IN  /\ created \subseteq nodes
          /\ \A e \in snap.edges :
               (\E m \in created, n \in created : e.src = m.id /\ e.dst = n.id) => e \in edges


\* validate_script went through its ten steps and returned from the end of the try
\* block
PipelineCompleted ==
  /\ Returned
  /\ ran # << >>
  /\ ran[Len(ran)] = "statistics"
  /\ ~ StepRaises("statistics")

\* C30: when validate_script completes its pipeline with at least one detection, every
\* detection's confidence lies in [0, 1], the overall confidence lies in [0.5, 1.0],
\* and the total weight does not exceed twice the number of detections (the clamp to 0
\* is not reached)
C30_CompletedConfidenceRange ==
  (PipelineCompleted /\ report.detections # << >>) =>
    /\ \A i \in 1..Len(report.detections) : report.detections[i].confidence \in 0..100
    /\ FracLeq(Frac(1, 2), report.overall_confidence)
    /\ FracLeq(report.overall_confidence, Frac(1, 1))
    /\ TotalWeight(report.detections) <= 2000 * Len(report.detections)

\* C30 witness: a completed pipeline whose report holds several detections, one of
\* them of weight x confidence 0.8 or more, and an overall confidence below 1.0
C30_Witness ==
  /\ PipelineCompleted
  /\ Len(report.detections) >= 2
  /\ \E i \in 1..Len(report.detections) :
       weights[report.detections[i].severity] * report.detections[i].confidence >= 800
  /\ ~ FracEq(report.overall_confidence, Frac(1, 1))

=============================================================================
